---- MODULE Spec2Model ----
(***************************************************************************)
(* A model of the tev2 tools: the term reference resolver (Resolver.ts),   *)
(* the terminology under construction (TuC) and the MRG importer.          *)
(*                                                                         *)
(* Texts are sequences of one-character strings; indices into a text are   *)
(* 0-based as in the TypeScript source (Substring converts).  Tags and     *)
(* terms are strings.  A filename `mrg.<scopetag>.<vsntag>.yaml` is the    *)
(* tuple <<"mrg", scopetag, vsntag, "yaml">>, and `mrg.<scopetag>.yaml`    *)
(* is <<"mrg", scopetag, "yaml">>.                                         *)
(***************************************************************************)
EXTENDS Integers, Sequences, FiniteSets, TLC

\* The number of pieces (plain characters, references) the input files of a
\* resolver run hold together.
MaxPieces == 3

----------------------------------------------------------------------------
(* Text helpers (JavaScript string operations) *)

Min(a, b) == IF a < b THEN a ELSE b

Max(a, b) == IF a > b THEN a ELSE b

\* String.prototype.substring(from, to): the characters from .. to-1 (0-based),
\* both ends clamped to the text.
Substring(s, from, to) ==
  SubSeq(s, Min(Max(from, 0), Len(s)) + 1, Min(Max(to, 0), Len(s)))

\* String.prototype.substring(from): the characters from `from` to the end.
SubstringFrom(s, from) == Substring(s, from, Len(s))

RECURSIVE Flatten(_)
Flatten(ss) == IF ss = <<>> THEN <<>> ELSE Head(ss) \o Flatten(Tail(ss))

\* s.split('\n').length: one more than the number of line breaks in s.
SplitLength(s) == Cardinality({i \in 1..Len(s) : s[i] = "\n"}) + 1

\* Whether `part` occurs in `s` as a contiguous run of characters.
Occurs(part, s) ==
  \E i \in 0..(Len(s) - Len(part)) : SubSeq(s, i + 1, i + Len(part)) = part

----------------------------------------------------------------------------
(* The scope administration (saf.scope) of the resolver run *)

SafScopetag == "s"

SafDefaultvsn == "1"

----------------------------------------------------------------------------
(* The interpreter: a custom regex                                          *)
(*   \[(?<showtext>[adez])@(?<scopetag>[stu]?)(?::(?<vsntag>[13]))?\]      *)

Letters == {"a", "d", "e", "z"}

ScopeChars == {"s", "t", "u"}

VsnChars == {"1", "3"}

CharAt(text, i) == IF i >= 0 /\ i < Len(text) THEN text[i + 1] ELSE ""

\* The length of the regex's match starting at index i of text, 0 if none.
MatchLengthAt(text, i) ==
  IF CharAt(text, i) = "[" /\ CharAt(text, i + 1) \in Letters /\ CharAt(text, i + 2) = "@"
  THEN LET p == IF CharAt(text, i + 3) \in ScopeChars THEN i + 4 ELSE i + 3
           q == IF CharAt(text, p) = ":" /\ CharAt(text, p + 1) \in VsnChars THEN p + 2 ELSE p
       IN IF CharAt(text, q) = "]" THEN q + 1 - i ELSE 0
  ELSE 0

\* The RegExpMatchArray of the match at index i: match[0], match.index, groups.
MatchAt(text, i) ==
  LET n == MatchLengthAt(text, i)
      sc == CharAt(text, i + 3)
      hasScope == sc \in ScopeChars
      p == IF hasScope THEN i + 4 ELSE i + 3
  IN [index |-> i,
      text |-> Substring(text, i, i + n),
      showtext |-> CharAt(text, i + 1),
      scopetag |-> IF hasScope THEN sc ELSE "",
      vsntag |-> IF CharAt(text, p) = ":" THEN CharAt(text, p + 1) ELSE ""]

\* text.matchAll(regex): the matches left to right, none overlapping.
RECURSIVE MatchAllFrom(_, _)
MatchAllFrom(text, i) ==
  IF i >= Len(text) THEN <<>>
  ELSE IF MatchLengthAt(text, i) > 0
       THEN <<MatchAt(text, i)>> \o MatchAllFrom(text, i + MatchLengthAt(text, i))
       ELSE MatchAllFrom(text, i + 1)

MatchAll(text) == MatchAllFrom(text, 0)

\* gray-matter's file.matter: the text between the opening delimiter at the
\* start of the file and the closing delimiter (the delimiter is "-" here).
Matter(text) ==
  IF Len(text) > 1 /\ text[1] = "-" /\ \E j \in 2..Len(text) : text[j] = "-"
  THEN LET j == CHOOSE k \in 2..Len(text) :
                  text[k] = "-" /\ \A l \in 2..(k - 1) : text[l] # "-"
       IN SubSeq(text, 2, j - 1)
  ELSE <<>>

\* The matches of the body: those of file.orig less the first
\* (number of front matter matches) ones.
BodyMatches(text) ==
  LET all == MatchAll(text)
      frontmatter == MatchAll(Matter(text))
  IN SubSeq(all, Len(frontmatter) + 1, Len(all))

\* interpreter.interpret(match): the term properties of a match.
Interpret(match) ==
  [term |-> match.showtext, scopetag |-> match.scopetag, vsntag |-> match.vsntag]

----------------------------------------------------------------------------
(* The glossary directory of the run: the MRG files on disk *)

NoAlt == <<>>

MrgS1 == <<"mrg", "s", "1", "yaml">>

MrgT == <<"mrg", "t", "yaml">>

MrgT3 == <<"mrg", "t", "3", "yaml">>

MrgU == <<"mrg", "u", "yaml">>

MrgFilesOnDisk == {MrgS1, MrgT, MrgT3, MrgU}

MrgOnDisk(filename) ==
  CASE filename = MrgS1 ->
         [terminology |-> [scopetag |-> "s", vsntag |-> "1"],
          entries |-> <<
            [term |-> "a", altterms |-> NoAlt, glossaryText |-> <<"A">>,
             source |-> <<"p", "/", "a">>],
            [term |-> "e", altterms |-> NoAlt, glossaryText |-> <<>>,
             source |-> <<"p", "/", "e">>],
            [term |-> "d", altterms |-> NoAlt, glossaryText |-> <<"D">>,
             source |-> <<"p", "/", "f">>],
            [term |-> "k", altterms |-> <<"y", "d">>, glossaryText |-> <<"K">>,
             source |-> <<"p", "/", "g">>],
            [term |-> "m", altterms |-> <<"d">>, glossaryText |-> <<"M">>,
             source |-> <<"p", "/", "f">>] >>]
    [] filename = MrgT ->
         [terminology |-> [scopetag |-> "t", vsntag |-> "2"],
          entries |-> <<
            [term |-> "q", altterms |-> <<"a">>,
             glossaryText |-> <<"Q", "Q", "Q", "Q", "Q">>,
             source |-> <<"t", "/", "q">>] >>]
    [] filename = MrgT3 ->
         [terminology |-> [scopetag |-> "t", vsntag |-> "3"],
          entries |-> <<
            [term |-> "a", altterms |-> NoAlt,
             glossaryText |-> <<"L", "\n", "L", "L", "L", "L", "L", "L">>,
             source |-> <<"t", "/", "a">>] >>]
    [] OTHER ->
         [terminology |-> [scopetag |-> "u", vsntag |-> "1"],
          entries |-> <<>>]

\* new MRG({ filename }): the registry loaded from the glossary directory.
NewMRG(filename) ==
  [filename |-> filename,
   terminology |-> MrgOnDisk(filename).terminology,
   entries |-> MrgOnDisk(filename).entries]

\* A faulty RegisterInstance: the new instance is put before the others.
RegisterInstanceFirst(instances, mrg) == <<mrg>> \o instances

\* The MRG constructor registers the new instance in MRG.instances.
RegisterInstance(instances, mrg) == Append(instances, mrg)

----------------------------------------------------------------------------
(* The converter: the template `{{glossaryText}}` *)

Convert(entry, termProperties) == entry.glossaryText

----------------------------------------------------------------------------
(* Resolver.interpretAndConvert, one match *)

\* An empty scopetag is set to the scopetag of the SAF.
DefaultScopetag(tp) ==
  IF tp.scopetag = "" THEN [tp EXCEPT !.scopetag = SafScopetag] ELSE tp


\* A faulty DefaultVsntag: the vsntag is defaulted whatever the scopetag.
DefaultVsntagAnyScope(tp) ==
  IF tp.vsntag = "" THEN [tp EXCEPT !.vsntag = SafDefaultvsn] ELSE tp

\* An empty vsntag of the SAF's own scope is set to the defaultvsn of the SAF.
DefaultVsntag(tp) ==
  IF tp.scopetag = SafScopetag /\ tp.vsntag = ""
  THEN [tp EXCEPT !.vsntag = SafDefaultvsn] ELSE tp

MrgFileName(tp) ==
  IF tp.vsntag # "" THEN <<"mrg", tp.scopetag, tp.vsntag, "yaml">>
  ELSE <<"mrg", tp.scopetag, "yaml">>


\* A faulty FindInstance: the instances are not searched.
FindInstanceNone(instances, mrgFile) == 0

\* A faulty FindInstance: the instance added last is taken for the one found.
FindInstanceLast(instances, mrgFile) ==
  IF \E i \in 1..Len(instances) : instances[i].filename = mrgFile
  THEN Len(instances) ELSE 0

\* The index in MRG.instances of the first instance with this filename, 0 if none.
FindInstance(instances, mrgFile) ==
  IF \E i \in 1..Len(instances) : instances[i].filename = mrgFile
  THEN CHOOSE i \in 1..Len(instances) :
         /\ instances[i].filename = mrgFile
         /\ \A j \in 1..(i - 1) : instances[j].filename # mrgFile
  ELSE 0

Includes(seq, x) == \E i \in 1..Len(seq) : seq[i] = x

EntryMatches(entry, term) == entry.term = term \/ Includes(entry.altterms, term)


\* A faulty MatchingEntries: the altterms are not searched.
MatchingEntriesTermOnly(entries, term) ==
  SelectSeq(entries, LAMBDA entry : entry.term = term)

MatchingEntries(entries, term) ==
  SelectSeq(entries, LAMBDA entry : EntryMatches(entry, term))

\* The sources of the entries, each once, in order of first occurrence.
RECURSIVE UniqueSources(_)
UniqueSources(entries) ==
  IF entries = <<>> THEN <<>>
  ELSE LET front == UniqueSources(SubSeq(entries, 1, Len(entries) - 1))
           last == entries[Len(entries)].source
       IN IF Includes(front, last) THEN front ELSE Append(front, last)

\* Array.prototype.join(', ')
RECURSIVE JoinCommaSpace(_)
JoinCommaSpace(parts) ==
  IF parts = <<>> THEN <<>>
  ELSE IF Len(parts) = 1 THEN parts[1]
       ELSE parts[1] \o <<",", " ">> \o JoinCommaSpace(Tail(parts))

\* path.basename(p): what follows the last separator.
Basename(p) ==
  IF \E i \in 1..Len(p) : p[i] = "/"
  THEN LET i == CHOOSE k \in 1..Len(p) : p[k] = "/" /\ \A l \in (k + 1)..Len(p) : p[l] # "/"
       IN SubSeq(p, i + 1, Len(p))
  ELSE p

\* The line of a diagnostic: the lines of file.orig up to match.index.
HelpLine(fileOrigNow, match) == SplitLength(Substring(fileOrigNow, 0, match.index))

TermRef(tp) == <<tp.term, "@", tp.scopetag, ":", tp.vsntag>>

\* The text named as the MRG in a multiple-match diagnostic.
MultiMatchSource(matchingEntries) == Basename(JoinCommaSpace(UniqueSources(matchingEntries)))

StartIndex(matchIndex, lastIndex) == matchIndex + lastIndex

SpliceText(text, startIndex, matchLength, replacement) ==
  Substring(text, 0, startIndex) \o replacement \o SubstringFrom(text, startIndex + matchLength)


\* A faulty NextLastIndex: the length of the match is not subtracted.
NextLastIndexNoMatchLength(lastIndex, replacementLength, matchLength) ==
  lastIndex + replacementLength

NextLastIndex(lastIndex, replacementLength, matchLength) ==
  lastIndex + replacementLength - matchLength

\* The replacement of a match: the conversion of the one matching entry, and
\* the empty string when none or several entries match.
Replacement(matchingEntries, tp) ==
  IF Len(matchingEntries) = 1
  THEN Convert(matchingEntries[1], [tp EXCEPT !.term = matchingEntries[1].term])
  ELSE <<>>

\* The report.termHelp calls of one match: at most one diagnostic.
HelpItems(filePath, fileOrigNow, match, tp, matchingEntries, replacement) ==
  LET item(kind, mrg) ==
        [file |-> filePath, line |-> HelpLine(fileOrigNow, match), kind |-> kind,
         ref |-> match.text, termRef |-> TermRef(tp), mrg |-> mrg]
  IN IF Len(matchingEntries) = 1
     THEN IF replacement = <<>> THEN <<item("empty", <<>>)>> ELSE <<>>
     ELSE IF Len(matchingEntries) > 1
          THEN <<item("multi", MultiMatchSource(matchingEntries))>>
          ELSE <<item("nomatch", <<>>)>>

\* The replacement steps are executed only for a non-empty replacement.
DoReplace(replacement) == Len(replacement) > 0


\* A faulty ReturnValue: the text is returned whether or not a reference was converted.
ReturnValueAlways(convertedCount, text) == [defined |-> TRUE, text |-> text]

\* What interpretAndConvert returns: the text, or undefined.
ReturnValue(convertedCount, text) ==
  IF convertedCount > 0 THEN [defined |-> TRUE, text |-> text]
  ELSE [defined |-> FALSE, text |-> <<>>]

\* `if (convertedData)`: undefined and the empty string are falsy.
Truthy(data) == data.defined /\ Len(data.text) > 0

----------------------------------------------------------------------------
(* Resolver.writeFile and the file system *)

InputFile1 == <<"d", "f1">>

InputFile2 == <<"d", "f2">>

InputFiles == {InputFile1, InputFile2}

\* path.join(outputPath, path.dirname(filePath), path.basename(filePath))
OutputFile(filePath) == <<"out", filePath[1], filePath[2]>>

Dirname(fullPath) == SubSeq(fullPath, 1, Len(fullPath) - 1)

OutputFiles == {OutputFile(f) : f \in InputFiles}

NoFile == [exists |-> FALSE, text |-> <<>>]

\* The output files that exist before the run: none, or that of the first input file.
ExistingChoices == {{}, {OutputFile(InputFile1)}}

OldText == <<"o", "l", "d">>


\* A faulty RefuseOverwrite: force is ignored.
RefuseOverwriteIgnoringForce(forceFlag, dirExists, fileExists) == dirExists /\ fileExists

\* An existing file is not overwritten unless force is enabled.
RefuseOverwrite(forceFlag, dirExists, fileExists) ==
  dirExists /\ ~forceFlag /\ fileExists

----------------------------------------------------------------------------
(* The input files of a run *)

PiecePlain == <<"\n">>

PieceFront == <<"-", "[", "a", "@", "]", "-">>

PieceOwn == <<"[", "a", "@", "]">>

PieceEmpty == <<"[", "e", "@", "s", "]">>

PieceMulti == <<"[", "d", "@", ":", "1", "]">>

PieceNoMatch == <<"[", "z", "@", "]">>

PieceImported == <<"[", "a", "@", "t", "]">>

PieceVersion == <<"[", "a", "@", "t", ":", "3", "]">>

PieceNoEntries == <<"[", "a", "@", "u", "]">>

Pieces ==
  {PiecePlain, PieceFront, PieceOwn, PieceEmpty, PieceMulti, PieceNoMatch,
   PieceImported, PieceVersion, PieceNoEntries}

PieceSeqs == UNION {[1..n -> Pieces] : n \in 0..MaxPieces}

\* The contents of the two input files: the pieces of a sequence, split in two.
RunInputs ==
  {[f \in InputFiles |->
      IF f = InputFile1 THEN Flatten(SubSeq(ps, 1, Min(k, Len(ps))))
      ELSE Flatten(SubSeq(ps, Min(k, Len(ps)) + 1, Len(ps)))] :
    ps \in PieceSeqs, k \in 0..MaxPieces}

\* The input files of the runs that are repeated: references that are
\* converted by two registries, one that matches no entry and one to a
\* registry without entries.
RerunPieces == {PieceOwn, PieceImported, PieceNoMatch, PieceNoEntries}

RerunInputs ==
  {in \in RunInputs :
     \E ps \in UNION {[1..n -> RerunPieces] : n \in 0..MaxPieces} :
       Flatten(ps) = in[InputFile1] \o in[InputFile2]}

----------------------------------------------------------------------------
(* The state of the three tools.  A run is a run of one tool: the state of  *)
(* the other two stays as it is.                                            *)

\* The terminology under construction (the MRG generator).
VARIABLES curated, tpc, vi, tucEntries, tucScopes, tucCText, cTextMap, walks,
          builderInstances, tucInstances, applied, added, tucLog, budget

\* The objects of the entries: the entries of the cached MRGs, by filename,
\* and for every entry of the TuC the entry of a source that is the same
\* object (OwnObject if it is an object of its own).
VARIABLES mrgEntries, sameAs

tvars == <<curated, tpc, vi, tucEntries, tucScopes, tucCText, cTextMap, walks,
           builderInstances, tucInstances, applied, added, tucLog, budget,
           mrgEntries, sameAs>>

\* The MRG importer.
VARIABLES importScopes, remoteVersions, onNotExist, prune, ipc, si, vix, glossary,
          writes, ilog

ivars == <<importScopes, remoteVersions, onNotExist, prune, ipc, si, vix, glossary,
           writes, ilog>>

----------------------------------------------------------------------------
(* The state of a resolver run *)

VARIABLES
  inputs,          \* the text of each input file
  force,           \* the force option
  outputs,         \* the output directory: each output file, if it exists, and its text
  dirs,            \* the directories that exist under the output path
  rpc,             \* where resolve() is: "start", "read", "match", "done"
  files,           \* the result of glob()
  fi,              \* the index in files of the file being processed
  fileOrig,        \* file.orig, the text being spliced
  matches,         \* the matches of the body of the file
  mi,              \* the index in matches of the next match
  lastIndex,       \* the cumulative length difference of the replacements so far
  converted,       \* the number of converted references of the file
  termProperties,  \* the term properties of the last match
  mrgFile,         \* the filename of the MRG of the last match
  convertedData,   \* what interpretAndConvert returned for the file
  edits,           \* history: the (index, length, replacement) of every splice of the file
  instances,       \* MRG.instances
  termErrors,      \* report.termErrors.items
  repConverted,    \* report.converted.items
  repFiles,        \* report.files.items
  errlog,          \* the codes of the errors logged
  faults,          \* what fails for each input file: its read, its interpretation, the
                   \* creation of its output directory or the write of its output
  parked,          \* the files whose work is suspended or has ended, when the
                   \* work on the files is interleaved: for each its state
  earlier          \* history: what the earlier run of the resolver left, if there was one

rvars ==
  <<inputs, force, outputs, dirs, rpc, files, fi, fileOrig, matches, mi, lastIndex,
    converted, termProperties, mrgFile, convertedData, edits, instances, termErrors,
    repConverted, repFiles, errlog, faults, parked, earlier>>

NoProperties == [term |-> "", scopetag |-> "", vsntag |-> ""]

Undefined == [defined |-> FALSE, text |-> <<>>]

\* The faults of the file system and of the interpretation.
Faults == {"none", "read", "interpret", "mkdir", "write"}

NoFaults == [f \in InputFiles |-> "none"]

ResolverInit(inputChoices, faultChoices) ==
  /\ inputs \in inputChoices
  /\ faults \in faultChoices
  /\ force \in BOOLEAN
  /\ \E existing \in ExistingChoices :
       /\ outputs = [o \in OutputFiles |->
                       IF o \in existing THEN [exists |-> TRUE, text |-> OldText] ELSE NoFile]
       /\ dirs = {Dirname(o) : o \in existing}
  /\ rpc = "start"
  /\ files = <<>>
  /\ fi = 0
  /\ fileOrig = <<>>
  /\ matches = <<>>
  /\ mi = 1
  /\ lastIndex = 0
  /\ converted = 0
  /\ termProperties = NoProperties
  /\ mrgFile = <<>>
  /\ convertedData = Undefined
  /\ edits = <<>>
  /\ instances = <<>>
  /\ termErrors = <<>>
  /\ repConverted = <<>>
  /\ repFiles = <<>>
  /\ errlog = <<>>
  /\ parked = <<>>
  /\ earlier = <<>>

\* A run in which nothing fails.
RInit == ResolverInit(RunInputs, {NoFaults})

\* resolve(): the list of files of the glob pattern.
Glob ==
  /\ rpc = "start"
  /\ files' = <<InputFile1, InputFile2>>
  /\ rpc' = "read"
  /\ UNCHANGED <<inputs, force, outputs, dirs, fi, fileOrig, matches, mi, lastIndex,
                 converted, termProperties, mrgFile, convertedData, edits, instances,
                 termErrors, repConverted, repFiles, errlog>>
  /\ UNCHANGED <<faults, parked, earlier, tvars, ivars>>

\* A faulty AfterFile: the loop over the files ends with the first file.
AfterFileReturn(i) == "done"

\* resolve(): where the loop over the files goes on after the file at index i.
AfterFile(i) == IF i < Len(files) THEN "read" ELSE "done"

\* resolve(): the next file is read; interpretAndConvert scans it for matches.
\* A file that cannot be read is reported (E009) and the loop continues.
ReadFile ==
  /\ rpc = "read"
  /\ fi < Len(files)
  /\ fi' = fi + 1
  /\ IF faults[files[fi + 1]] = "read"
     THEN /\ errlog' = Append(errlog, "E009")
          /\ fileOrig' = <<>>
          /\ matches' = <<>>
          /\ rpc' = AfterFile(fi + 1)
     ELSE /\ fileOrig' = inputs[files[fi + 1]]
          /\ matches' = BodyMatches(inputs[files[fi + 1]])
          /\ rpc' = "match"
          /\ UNCHANGED errlog
  /\ mi' = 1
  /\ lastIndex' = 0
  /\ converted' = 0
  /\ convertedData' = Undefined
  /\ edits' = <<>>
  /\ UNCHANGED <<inputs, force, outputs, dirs, files, termProperties, mrgFile, instances,
                 termErrors, repConverted, repFiles>>
  /\ UNCHANGED <<faults, parked, earlier, tvars, ivars>>

\* interpretAndConvert: the body of the loop over the matches, for an MRG with entries.
ResolveMatch(match, tp, mrg) ==
  LET tpv == IF tp.vsntag = "" THEN [tp EXCEPT !.vsntag = mrg.terminology.vsntag] ELSE tp
      matchingEntries == MatchingEntries(mrg.entries, tpv.term)
      replacement == Replacement(matchingEntries, tpv)
      startIndex == StartIndex(match.index, lastIndex)
      matchLength == Len(match.text)
  IN /\ termProperties' =
          IF Len(matchingEntries) = 1 THEN [tpv EXCEPT !.term = matchingEntries[1].term] ELSE tpv
     /\ termErrors' = termErrors \o
          HelpItems(files[fi], fileOrig, match, tpv, matchingEntries, replacement)
     /\ IF DoReplace(replacement)
        THEN /\ fileOrig' = SpliceText(fileOrig, startIndex, matchLength, replacement)
             /\ lastIndex' = NextLastIndex(lastIndex, Len(replacement), matchLength)
             /\ repConverted' = Append(repConverted, matchingEntries[1])
             /\ converted' = converted + 1
             /\ edits' = Append(edits, [index |-> match.index, length |-> matchLength,
                                        replacement |-> replacement])
        ELSE UNCHANGED <<fileOrig, lastIndex, repConverted, converted, edits>>

\* interpretAndConvert: the body of the loop over the matches.
IterateMatch ==
  LET match == matches[mi]
      tp == DefaultVsntag(DefaultScopetag(Interpret(match)))
      file == MrgFileName(tp)
      found == FindInstance(instances, file)
      insts == IF found = 0 THEN RegisterInstance(instances, NewMRG(file)) ELSE instances
      mrg == IF found = 0 THEN insts[Len(insts)] ELSE insts[found]
  IN /\ instances' = insts
     /\ mrgFile' = file
     /\ IF Len(mrg.entries) > 0
        THEN ResolveMatch(match, tp, mrg)
        ELSE /\ termProperties' = tp
             /\ UNCHANGED <<termErrors, fileOrig, lastIndex, repConverted, converted, edits>>

\* interpretAndConvert: one iteration of the loop over the matches; the
\* iteration does what IterateMatch says, or it throws: resolve() catches
\* the exception, reports it (E010) and continues with the next file.
ProcessMatch ==
  /\ rpc = "match"
  /\ mi <= Len(matches)
  /\ \E throws \in IF faults[files[fi]] = "interpret" THEN BOOLEAN ELSE {FALSE} :
       IF throws
       THEN /\ errlog' = Append(errlog, "E010")
            /\ rpc' = AfterFile(fi)
            /\ UNCHANGED <<mi, instances, mrgFile, termProperties, termErrors, fileOrig,
                           lastIndex, repConverted, converted, edits>>
       ELSE /\ IterateMatch
            /\ mi' = mi + 1
            /\ UNCHANGED <<rpc, errlog>>
  /\ UNCHANGED <<inputs, force, outputs, dirs, files, fi, matches, convertedData,
                 repFiles>>
  /\ UNCHANGED <<faults, parked, earlier, tvars, ivars>>

\* What fails for the input file of an output path.
FaultOf(fullPath) == faults[<<fullPath[2], fullPath[3]>>]

\* Resolver.writeFile(fullPath, data, force)
WriteFile(fullPath, data, forceFlag) ==
  IF Dirname(fullPath) \notin dirs /\ FaultOf(fullPath) = "mkdir"
  THEN /\ errlog' = Append(errlog, "E007")
       /\ UNCHANGED <<outputs, dirs, repFiles>>
  ELSE IF RefuseOverwrite(forceFlag, Dirname(fullPath) \in dirs, outputs[fullPath].exists)
  THEN /\ errlog' = Append(errlog, "E013")
       /\ UNCHANGED <<outputs, dirs, repFiles>>
  ELSE IF FaultOf(fullPath) = "write"
  THEN /\ dirs' = dirs \cup {Dirname(fullPath)}
       /\ errlog' = Append(errlog, "E008")
       /\ UNCHANGED <<outputs, repFiles>>
  ELSE /\ dirs' = dirs \cup {Dirname(fullPath)}
       /\ outputs' = [outputs EXCEPT ![fullPath] = [exists |-> TRUE, text |-> data]]
       /\ repFiles' = Append(repFiles, fullPath)
       /\ UNCHANGED errlog

\* resolve(): what interpretAndConvert returned is written if it is some text.
ReturnAndWrite ==
  /\ convertedData' = ReturnValue(converted, fileOrig)
  /\ IF Truthy(ReturnValue(converted, fileOrig))
     THEN WriteFile(OutputFile(files[fi]), fileOrig, force)
     ELSE UNCHANGED <<outputs, dirs, repFiles, errlog>>

\* resolve(): interpretAndConvert returns, and the converted data is written.
FinishFile ==
  /\ rpc = "match"
  /\ mi > Len(matches)
  /\ ReturnAndWrite
  /\ rpc' = AfterFile(fi)
  /\ UNCHANGED <<inputs, force, files, fi, fileOrig, matches, mi, lastIndex, converted,
                 termProperties, mrgFile, edits, instances, termErrors, repConverted>>
  /\ UNCHANGED <<faults, parked, earlier, tvars, ivars>>

RNext == Glob \/ ReadFile \/ ProcessMatch \/ FinishFile

\* The number of runs of the resolver over the same input.
MaxRuns == 2

\* The files written by this run: the report of a process that ran before
\* starts with the files of the earlier run.
WrittenThisRun ==
  SubSeq(repFiles, (IF earlier = <<>> THEN 0 ELSE earlier[Len(earlier)].reported) + 1,
         Len(repFiles))

\* The resolver is run again over the same input files, registries and
\* options: by a new process, with an empty MRG.instances and an empty report,
\* or by the same process, which keeps both.  The output directory stays.
Rerun ==
  /\ rpc = "done"
  /\ Len(earlier) < MaxRuns - 1
  /\ \E sameProcess \in BOOLEAN :
       /\ instances' = IF sameProcess THEN instances ELSE <<>>
       /\ termErrors' = IF sameProcess THEN termErrors ELSE <<>>
       /\ repConverted' = IF sameProcess THEN repConverted ELSE <<>>
       /\ repFiles' = IF sameProcess THEN repFiles ELSE <<>>
       /\ errlog' = IF sameProcess THEN errlog ELSE <<>>
       /\ earlier' = Append(earlier,
            [outputs |-> outputs, written |-> WrittenThisRun,
             reported |-> IF sameProcess THEN Len(repFiles) ELSE 0])
  /\ rpc' = "start"
  /\ files' = <<>>
  /\ fi' = 0
  /\ fileOrig' = <<>>
  /\ matches' = <<>>
  /\ mi' = 1
  /\ lastIndex' = 0
  /\ converted' = 0
  /\ termProperties' = NoProperties
  /\ mrgFile' = <<>>
  /\ convertedData' = Undefined
  /\ edits' = <<>>
  /\ UNCHANGED <<inputs, force, outputs, dirs, faults, parked>>
  /\ UNCHANGED <<tvars, ivars>>

\* The work on the files, interleaved: the files are taken up in any order,
\* and the work on a file may be suspended after any of its matches and
\* resumed later.  What is the file's own (the text, the matches, the index of
\* the next match, the offset, the number of conversions) goes with the file;
\* MRG.instances, the report and the output directory are shared.
FileState(st) ==
  [st |-> st, fileOrig |-> fileOrig, matches |-> matches, mi |-> mi,
   lastIndex |-> lastIndex, converted |-> converted, edits |-> edits]

Idle ==
  /\ fileOrig' = <<>>
  /\ matches' = <<>>
  /\ mi' = 1
  /\ lastIndex' = 0
  /\ converted' = 0
  /\ edits' = <<>>

\* A file that was not taken up yet is read and scanned.
StartFile ==
  /\ rpc = "read"
  /\ \E i \in 1..Len(files) :
       /\ i \notin DOMAIN parked
       /\ fi' = i
       /\ fileOrig' = inputs[files[i]]
       /\ matches' = BodyMatches(inputs[files[i]])
  /\ mi' = 1
  /\ lastIndex' = 0
  /\ converted' = 0
  /\ convertedData' = Undefined
  /\ edits' = <<>>
  /\ rpc' = "match"
  /\ UNCHANGED <<inputs, force, outputs, dirs, files, termProperties, mrgFile, instances,
                 termErrors, repConverted, repFiles, errlog, faults, parked, earlier>>
  /\ UNCHANGED <<tvars, ivars>>

\* The work on the file is suspended.
Yield ==
  /\ rpc = "match"
  /\ parked' = (fi :> FileState("suspended")) @@ parked
  /\ Idle
  /\ rpc' = "read"
  /\ UNCHANGED <<inputs, force, outputs, dirs, files, fi, termProperties, mrgFile,
                 convertedData, instances, termErrors, repConverted, repFiles, errlog,
                 faults, earlier>>
  /\ UNCHANGED <<tvars, ivars>>

\* The work on a suspended file is resumed.
Resume ==
  /\ rpc = "read"
  /\ \E i \in DOMAIN parked :
       /\ parked[i].st = "suspended"
       /\ fi' = i
       /\ fileOrig' = parked[i].fileOrig
       /\ matches' = parked[i].matches
       /\ mi' = parked[i].mi
       /\ lastIndex' = parked[i].lastIndex
       /\ converted' = parked[i].converted
       /\ edits' = parked[i].edits
       /\ parked' = [j \in DOMAIN parked \ {i} |-> parked[j]]
  /\ rpc' = "match"
  /\ UNCHANGED <<inputs, force, outputs, dirs, files, termProperties, mrgFile,
                 convertedData, instances, termErrors, repConverted, repFiles, errlog,
                 faults, earlier>>
  /\ UNCHANGED <<tvars, ivars>>

\* The work on the file ends: what interpretAndConvert returned is written, and
\* resolve() returns when the work on every file has ended.
EndFile ==
  /\ rpc = "match"
  /\ mi > Len(matches)
  /\ ReturnAndWrite
  /\ parked' = (fi :> [FileState("ended") EXCEPT !.matches = <<>>]) @@ parked
  /\ rpc' = IF \A i \in 1..Len(files) : i = fi \/ (i \in DOMAIN parked /\ parked[i].st = "ended")
            THEN "done" ELSE "read"
  /\ UNCHANGED <<inputs, force, files, fi, fileOrig, matches, mi, lastIndex, converted,
                 termProperties, mrgFile, edits, instances, termErrors, repConverted,
                 faults, earlier>>
  /\ UNCHANGED <<tvars, ivars>>

InterleavedNext == Glob \/ StartFile \/ ProcessMatch \/ Yield \/ Resume \/ EndFile

\* The input files of the interleaved runs.
InterleavedPieces == {PieceOwn, PieceImported, PieceNoMatch}

InterleavedInputs ==
  {[f \in InputFiles |->
      IF f = InputFile1 THEN Flatten(SubSeq(ps, 1, Min(k, Len(ps))))
      ELSE Flatten(SubSeq(ps, Min(k, Len(ps)) + 1, Len(ps)))] :
    ps \in UNION {[1..n -> InterleavedPieces] : n \in 0..MaxPieces}, k \in 0..MaxPieces}

\* The input files of the runs in which something fails: references that are
\* converted and references that match no entry.
FaultPieces == {PieceOwn, PieceNoMatch}

FaultInputs ==
  {[f \in InputFiles |->
      IF f = InputFile1 THEN Flatten(SubSeq(ps, 1, Min(k, Len(ps))))
      ELSE Flatten(SubSeq(ps, Min(k, Len(ps)) + 1, Len(ps)))] :
    ps \in UNION {[1..n -> FaultPieces] : n \in 0..MaxPieces}, k \in 0..MaxPieces}

RerunNext == Glob \/ ReadFile \/ ProcessMatch \/ FinishFile \/ Rerun

----------------------------------------------------------------------------
(* The claims about the resolver *)

\* A step of the loop over the matches, and the step that ends a file.
MatchStep == rpc = "match" /\ mi <= Len(matches) /\ mi' = mi + 1

FileStep == rpc = "match" /\ rpc' # "match"

\* The registry a match selects, read from the match as the specification states it.
RefScopetag(m) == IF m.scopetag = "" THEN SafScopetag ELSE m.scopetag

RefKeyVsntag(m) ==
  IF m.vsntag # "" THEN m.vsntag
  ELSE IF RefScopetag(m) = SafScopetag THEN SafDefaultvsn ELSE ""

RefFile(m) ==
  IF RefKeyVsntag(m) # "" THEN <<"mrg", RefScopetag(m), RefKeyVsntag(m), "yaml">>
  ELSE <<"mrg", RefScopetag(m), "yaml">>

RefEntries(m) == MrgOnDisk(RefFile(m)).entries

\* The (indices of the) entries of the selected registry that match the reference.
RefMatching(m) ==
  {i \in 1..Len(RefEntries(m)) :
     \/ RefEntries(m)[i].term = m.showtext
     \/ \E j \in 1..Len(RefEntries(m)[i].altterms) : RefEntries(m)[i].altterms[j] = m.showtext}

\* The original text with every edit's range replaced, assembled left to right.
RECURSIVE AssembleFrom(_, _, _)
AssembleFrom(original, editList, pos) ==
  IF editList = <<>> THEN SubstringFrom(original, pos)
  ELSE Substring(original, pos, Head(editList).index)
         \o Head(editList).replacement
         \o AssembleFrom(original, Tail(editList), Head(editList).index + Head(editList).length)

Assemble(original, editList) == AssembleFrom(original, editList, 0)

\* C1: the text of a file, while it is resolved and when interpretAndConvert
\* returns it, is the original text with exactly the range of each converted
\* match replaced by its replacement and every other character unchanged.
C1_OffsetCorrect ==
  fi >= 1 =>
    /\ fileOrig = Assemble(inputs[files[fi]], edits)
    /\ convertedData.defined => convertedData.text = Assemble(inputs[files[fi]], edits)

\* C1's case: a file returned with three converted matches, whose replacements
\* are shorter than, as long as and longer than the match.
C1_Witness ==
  /\ convertedData.defined
  /\ Len(edits) = 3
  /\ \E i \in 1..3 : Len(edits[i].replacement) < edits[i].length
  /\ \E i \in 1..3 : Len(edits[i].replacement) = edits[i].length
  /\ \E i \in 1..3 : Len(edits[i].replacement) > edits[i].length

\* Some occurrence of `old` in `before` is replaced by `new` in `after`.
Spliced(before, after, old, new) ==
  \E k \in 0..Len(before) :
    /\ Substring(before, k, k + Len(old)) = old
    /\ after = Substring(before, 0, k) \o new \o SubstringFrom(before, k + Len(old))

\* C4: a reference that exactly one entry of the selected registry matches (by
\* term or altterms) is spliced, with one converted-term event for that entry
\* and no diagnostic, when the converter returns a non-empty string; when it
\* returns the empty string a term-help diagnostic is recorded, the text is
\* left unchanged and no converted-term event is recorded.
C4_UniqueMatch ==
  [][(MatchStep /\ Cardinality(RefMatching(matches[mi])) = 1) =>
       LET m == matches[mi]
           entry == RefEntries(m)[CHOOSE i \in RefMatching(m) : TRUE]
           rendered == entry.glossaryText
       IN IF rendered # <<>>
          THEN /\ Spliced(fileOrig, fileOrig', m.text, rendered)
               /\ repConverted' = Append(repConverted, entry)
               /\ termErrors' = termErrors
          ELSE /\ fileOrig' = fileOrig
               /\ repConverted' = repConverted
               /\ Len(termErrors') = Len(termErrors) + 1
               /\ termErrors'[Len(termErrors')].kind = "empty"
               /\ termErrors'[Len(termErrors')].ref = m.text
               /\ termErrors'[Len(termErrors')].file = files[fi]
               /\ SubSeq(termErrors', 1, Len(termErrors)) = termErrors]_rvars

\* C4's case: one reference matched through the altterms of its one entry was
\* converted, and another reference's conversion was refused as empty.
C4_Witness ==
  /\ \E i \in 1..Len(repConverted) : repConverted[i].term = "q"
  /\ \E i \in 1..Len(termErrors) : termErrors[i].kind = "empty"

\* C5: when more than one entry of the selected registry matches a reference,
\* one term-help diagnostic is recorded that lists the distinct sources of the
\* conflicting entries, nothing is spliced, no converted-term event is
\* recorded and the cumulative offset delta is unchanged.
C5_MultiMatch ==
  [][(MatchStep /\ Cardinality(RefMatching(matches[mi])) > 1) =>
       LET m == matches[mi]
       IN /\ Len(termErrors') = Len(termErrors) + 1
          /\ termErrors'[Len(termErrors')].kind = "multi"
          /\ \A i \in RefMatching(m) :
               Occurs(Basename(RefEntries(m)[i].source), termErrors'[Len(termErrors')].mrg)
          /\ fileOrig' = fileOrig
          /\ repConverted' = repConverted
          /\ lastIndex' = lastIndex]_rvars

\* C6: an empty scopetag becomes the scopetag of the current scope; an empty
\* vsntag becomes the current scope's defaultvsn exactly when the scopetag is
\* the current scope's; the registry is `mrg.<scopetag>.<vsntag>.yaml` when
\* there is a vsntag after defaulting and `mrg.<scopetag>.yaml` otherwise; a
\* reference to an imported scope without vsntag takes the vsntag of the
\* registry loaded from the unsuffixed file.
C6_Defaulting ==
  (rpc = "match" /\ mi > 1) =>
    LET m == matches[mi - 1]
        scopetag == IF m.scopetag = "" THEN SafScopetag ELSE m.scopetag
        own == scopetag = SafScopetag
        keyVsntag == IF m.vsntag # "" THEN m.vsntag ELSE IF own THEN SafDefaultvsn ELSE ""
    IN /\ termProperties.scopetag = scopetag
       /\ (m.vsntag = "" /\ own) => mrgFile = <<"mrg", scopetag, SafDefaultvsn, "yaml">>
       /\ (m.vsntag = "" /\ ~own) =>
            /\ mrgFile = <<"mrg", scopetag, "yaml">>
            /\ IF MrgOnDisk(mrgFile).entries # <<>>
               THEN termProperties.vsntag = MrgOnDisk(mrgFile).terminology.vsntag
               ELSE termProperties.vsntag = ""
       /\ m.vsntag # "" => mrgFile = <<"mrg", scopetag, m.vsntag, "yaml">>
       /\ keyVsntag # "" => termProperties.vsntag = keyVsntag

\* C6's case: a reference to the imported scope t without vsntag selected
\* mrg.t.yaml and took the vsntag 2 of that registry.
C6_Witness ==
  /\ rpc = "match"
  /\ mi > 1
  /\ matches[mi - 1].scopetag = "t"
  /\ matches[mi - 1].vsntag = ""
  /\ mrgFile = <<"mrg", "t", "yaml">>
  /\ termProperties.vsntag = "2"

\* C7: a file without a converted reference causes no write and no
\* file-written event; a file with at least one converted reference is
\* written to the mirrored output path, unless that file exists and force is
\* not enabled; no other output file is touched.
C7_WriteOnlyConverted ==
  [][FileStep =>
       LET out == OutputFile(files[fi])
       IN /\ converted = 0 => (outputs' = outputs /\ repFiles' = repFiles /\ dirs' = dirs)
          /\ (converted > 0 /\ (force \/ ~outputs[out].exists)) =>
               /\ outputs'[out] = [exists |-> TRUE, text |-> fileOrig]
               /\ repFiles' = Append(repFiles, out)
          /\ \A o \in OutputFiles \ {out} : outputs'[o] = outputs[o]]_rvars

\* C7's case: the run is over, the first file was written and the second,
\* which holds references of which none was converted, was not.
C7_Witness ==
  /\ rpc = "done"
  /\ Len(matches) > 0
  /\ converted = 0
  /\ ~outputs[OutputFile(files[fi])].exists
  /\ repFiles = <<OutputFile(files[1])>>

\* C8: when the output file exists and force is not enabled, writeFile leaves
\* the file as it is, records no file-written event, logs an error (E013) and
\* the run goes on to the next file; with force enabled the file is
\* overwritten and one file-written event is recorded.
C8_ForceRule ==
  [][(FileStep /\ converted > 0 /\ outputs[OutputFile(files[fi])].exists) =>
       LET out == OutputFile(files[fi])
       IN IF ~force
          THEN /\ outputs' = outputs
               /\ repFiles' = repFiles
               /\ errlog' = Append(errlog, "E013")
               /\ rpc' = IF fi < Len(files) THEN "read" ELSE "done"
               /\ fi' = fi
          ELSE /\ outputs'[out] = [exists |-> TRUE, text |-> fileOrig]
               /\ repFiles' = Append(repFiles, out)
               /\ errlog' = errlog]_rvars

\* C8's case: the first file's output existed and was refused, and the run
\* went on and wrote the second file.
C8_Witness ==
  /\ rpc = "done"
  /\ errlog = <<"E013">>
  /\ outputs[OutputFile(files[1])].text = OldText
  /\ repFiles = <<OutputFile(files[2])>>

NoDuplicateInstances(insts) ==
  \A i, j \in 1..Len(insts) : i # j => insts[i].filename # insts[j].filename

\* C9: MRG.instances never holds two instances of one filename; a lookup of a
\* filename that has an instance creates none and leaves the instances as
\* they are, and a lookup of any other filename adds exactly its instance.
C9_Memoized ==
  [][/\ NoDuplicateInstances(instances')
     /\ MatchStep =>
          LET key == RefFile(matches[mi])
          IN IF \E i \in 1..Len(instances) : instances[i].filename = key
             THEN instances' = instances
             ELSE /\ Len(instances') = Len(instances) + 1
                  /\ SubSeq(instances', 1, Len(instances)) = instances
                  /\ instances'[Len(instances')].filename = key]_rvars

\* C9's case: two references of one file selected the same registry, and a
\* second file selected it again: there is one instance.
C9_Witness ==
  /\ rpc = "match"
  /\ fi = 2
  /\ mi = 2
  /\ Len(instances) = 1
  /\ Len(BodyMatches(inputs[files[1]])) = 2
  /\ \A i \in 1..2 : RefFile(BodyMatches(inputs[files[1]])[i]) = RefFile(matches[1])

\* The characters of a tag or a term: the tags and terms here are one
\* character long, or empty.
Chars(tag) == IF tag = "" THEN <<>> ELSE <<tag>>

\* The edit distance of two texts.
RECURSIVE EditDistance(_, _)
EditDistance(a, b) ==
  IF a = <<>> THEN Len(b)
  ELSE IF b = <<>> THEN Len(a)
  ELSE IF Head(a) = Head(b) THEN EditDistance(Tail(a), Tail(b))
  ELSE 1 + Min(EditDistance(Tail(a), Tail(b)),
               Min(EditDistance(Tail(a), b), EditDistance(a, Tail(b))))

\* An edit-distance-based similarity of two texts, in percent.
Similarity(a, b) ==
  IF a = <<>> /\ b = <<>> THEN 100
  ELSE 100 - (100 * EditDistance(a, b)) \div Max(Len(a), Len(b))

\* The vsntag of a reference once the registry is selected.
RefVsntag(m) ==
  IF RefKeyVsntag(m) # "" THEN RefKeyVsntag(m)
  ELSE MrgOnDisk(RefFile(m)).terminology.vsntag

TermSimilarity(m, i) == Similarity(Chars(m.showtext), Chars(RefEntries(m)[i].term))

\* The (index of the) entry of the selected registry whose term is most
\* similar to the reference's: the first of the best.
BestTermEntry(m) ==
  CHOOSE i \in 1..Len(RefEntries(m)) :
    /\ \A j \in 1..Len(RefEntries(m)) : TermSimilarity(m, j) <= TermSimilarity(m, i)
    /\ \A j \in 1..(i - 1) : TermSimilarity(m, j) < TermSimilarity(m, i)

\* The average of the best similarity per property: every entry of a registry
\* carries the scopetag and the vsntag of its terminology.
AveragedScore(m) ==
  (TermSimilarity(m, BestTermEntry(m))
     + Similarity(Chars(RefScopetag(m)), Chars(MrgOnDisk(RefFile(m)).terminology.scopetag))
     + Similarity(Chars(RefVsntag(m)), Chars(MrgOnDisk(RefFile(m)).terminology.vsntag))) \div 3

\* The specification fixes a threshold and names no value: one half here.  A
\* reference of the selected scope and version whose term no entry has scores
\* two thirds.
SuggestThreshold == 50

FullReference(m, i) ==
  <<RefEntries(m)[i].term, "@", MrgOnDisk(RefFile(m)).terminology.scopetag, ":",
    MrgOnDisk(RefFile(m)).terminology.vsntag>>

\* What a diagnostic says besides its fixed words.
DiagnosticText(item) == item.ref \o <<" ">> \o item.termRef \o <<" ">> \o item.mrg

ZeroMatch(m) == RefEntries(m) # <<>> /\ RefMatching(m) = {}

\* C19: a reference that matches no entry of a registry with entries is not
\* spliced and records one diagnostic: when the averaged best similarity per
\* property (term, scopetag, vsntag) exceeds the threshold the diagnostic
\* names the full reference of the entry with the most similar term, and
\* otherwise it is the plain no-match diagnostic.
C19_Suggests ==
  [][MatchStep /\ ZeroMatch(matches[mi]) =>
       /\ fileOrig' = fileOrig
       /\ edits' = edits
       /\ converted' = converted
       /\ Len(termErrors') = Len(termErrors) + 1
       /\ SubSeq(termErrors', 1, Len(termErrors)) = termErrors
       /\ LET m == matches[mi]
              item == termErrors'[Len(termErrors')]
          IN IF AveragedScore(m) > SuggestThreshold
             THEN Occurs(FullReference(m, BestTermEntry(m)), DiagnosticText(item))
             ELSE /\ item.kind = "nomatch"
                  /\ \A i \in 1..Len(RefEntries(m)) :
                       ~Occurs(FullReference(m, i), DiagnosticText(item))]_rvars

\* C20: with force enabled, a run of the resolver after an earlier run over
\* the same input writes the files the earlier run wrote, and every file of
\* the output directory has, throughout and after the run, the content the
\* earlier run left: the instances that MRG.instances kept and the output
\* files that exist change nothing.
C20_Idempotent ==
  (force /\ earlier # <<>>) =>
    /\ \A o \in OutputFiles : outputs[o] = earlier[Len(earlier)].outputs[o]
    /\ rpc = "done" => WrittenThisRun = earlier[Len(earlier)].written

\* C20's case: the second run of a process that kept its instances of two
\* registries ended; both runs wrote both files.
C20_Witness ==
  /\ force
  /\ rpc = "done"
  /\ earlier # <<>>
  /\ earlier[1].reported = 2
  /\ Len(WrittenThisRun) = 2
  /\ Len(instances) >= 2
  /\ \A o \in OutputFiles : outputs[o].exists /\ outputs[o].text # OldText

\* C22: every match of a file's body records exactly one outcome: a converted
\* event with a splice, or a diagnostic without a splice; this whatever the
\* registry the match selects, one without entries included.
C22_OneOutcome ==
  [][MatchStep =>
       \/ /\ Len(repConverted') = Len(repConverted) + 1
          /\ termErrors' = termErrors
          /\ Len(edits') = Len(edits) + 1
       \/ /\ Len(termErrors') = Len(termErrors) + 1
          /\ termErrors'[Len(termErrors')].kind \in {"nomatch", "multi", "empty"}
          /\ repConverted' = repConverted
          /\ fileOrig' = fileOrig
          /\ edits' = edits]_rvars

\* C27: the line recorded with a diagnostic is the line of the reference in
\* the input file as it was read, whatever was spliced before the reference.
C27_LineOfOriginal ==
  [][(MatchStep /\ Len(termErrors') = Len(termErrors) + 1) =>
       termErrors'[Len(termErrors')].line =
         SplitLength(Substring(inputs[files[fi]], 0, matches[mi].index))]_rvars

\* The splices of a text whose references are resolved without a fault: one
\* for each reference that one entry matches and that renders to some text.
RECURSIVE ExpectedEdits(_)
ExpectedEdits(ms) ==
  IF ms = <<>> THEN <<>>
  ELSE LET m == Head(ms)
           rendered == RefEntries(m)[CHOOSE i \in RefMatching(m) : TRUE].glossaryText
       IN IF Cardinality(RefMatching(m)) = 1 /\ rendered # <<>>
          THEN <<[index |-> m.index, length |-> Len(m.text), replacement |-> rendered]>>
                 \o ExpectedEdits(Tail(ms))
          ELSE ExpectedEdits(Tail(ms))

\* The output of an input file was there before the run and force is off.
ExistsWithoutForce(f) ==
  ~force /\ outputs[OutputFile(f)] = [exists |-> TRUE, text |-> OldText]

\* C21: when resolve() has returned, every file of the glob was taken up, and
\* every file that no fault befell and whose output did not exist without
\* force was resolved and written if something was converted in it, whatever
\* befell the other file: an unreadable input, an exception during the
\* interpretation, an output that cannot be written, an existing output.
C21_SkipsOnlyThatFile ==
  rpc = "done" =>
    /\ fi = Len(files)
    /\ \A i \in 1..Len(files) :
         LET f == files[i]
             expected == ExpectedEdits(BodyMatches(inputs[f]))
         IN (faults[f] = "none" /\ ~ExistsWithoutForce(f)) =>
              IF expected # <<>>
              THEN /\ outputs[OutputFile(f)] =
                        [exists |-> TRUE, text |-> Assemble(inputs[f], expected)]
                   /\ Includes(repFiles, OutputFile(f))
              ELSE ~Includes(repFiles, OutputFile(f))

\* C21's case: the interpretation of the first file threw after one of its
\* references was converted; the second file was resolved and written.
C21_Witness ==
  /\ rpc = "done"
  /\ errlog = <<"E010">>
  /\ faults[files[1]] = "interpret"
  /\ Len(repConverted) >= 2
  /\ repFiles = <<OutputFile(files[2])>>

\* The work on one file by itself, with every registry read from disk: the
\* text, the diagnostics and the converted entries after the matches ms.
RECURSIVE Alone(_, _, _, _)
Alone(filePath, ms, offset, acc) ==
  IF ms = <<>> THEN acc
  ELSE LET match == Head(ms)
           tp == DefaultVsntag(DefaultScopetag(Interpret(match)))
           mrg == NewMRG(MrgFileName(tp))
           tpv == IF tp.vsntag = "" THEN [tp EXCEPT !.vsntag = mrg.terminology.vsntag] ELSE tp
           matching == MatchingEntries(mrg.entries, tpv.term)
           replacement == Replacement(matching, tpv)
       IN IF mrg.entries = <<>> THEN Alone(filePath, Tail(ms), offset, acc)
          ELSE IF DoReplace(replacement)
          THEN Alone(filePath, Tail(ms),
                     NextLastIndex(offset, Len(replacement), Len(match.text)),
                     [text |-> SpliceText(acc.text, StartIndex(match.index, offset),
                                          Len(match.text), replacement),
                      items |-> acc.items,
                      events |-> Append(acc.events, matching[1])])
          ELSE Alone(filePath, Tail(ms), offset,
                     [acc EXCEPT !.items = acc.items \o
                        HelpItems(filePath, acc.text, match, tpv, matching, replacement)])

ResultAlone(f) ==
  Alone(f, BodyMatches(inputs[f]), 0, [text |-> inputs[f], items |-> <<>>, events |-> <<>>])

Count(seq, x) == Cardinality({i \in 1..Len(seq) : seq[i] = x})

----------------------------------------------------------------------------
(* The terminology under construction (TuC): entries and their fields       *)
(*                                                                          *)
(* An entry is a record of fields; the value of a field is [t, v]: a        *)
(* string ("string", v a one-element sequence), a list of strings ("list"), *)
(* null ("null") or, for a field the entry lacks, undefined.                *)

\* The number of instructions of the termselections of a build.
MaxInstructions == 3

Str(x) == [t |-> "string", v |-> <<x>>]

List(xs) == [t |-> "list", v |-> xs]

Null == [t |-> "null", v |-> <<>>]

Undef == [t |-> "undefined", v |-> <<>>]

\* entry[key]
Field(entry, key) == IF key \in DOMAIN entry THEN entry[key] ELSE Undef

\* entry[key] = value
SetField(entry, key, value) ==
  [k \in DOMAIN entry \cup {key} |-> IF k = key THEN value ELSE entry[k]]

\* The generator's scope administration: saf.scope.scopetag and saf.scopes.
GenScopetag == "s"

GenScopes == <<[scopetag |-> "t", scopedir |-> "dir-t"]>>

\* The front matter of the curated texts of the curatedir, in the order of the walk.
CuratedA ==
  [term |-> Str("a"), text |-> Str("curated a"), tags |-> List(<<"g", "h">>),
   status |-> Str("")]

CuratedB ==
  [term |-> Str("b"), text |-> Str("curated b"), tags |-> Str("g"),
   status |-> Null, scopetag |-> Str("q")]

CuratedA2 ==
  [term |-> Str("a"), text |-> Str("curated a, second file"), tags |-> Str("h")]

\* The entry of a curated text: its front matter with the scopetag of the
\* current scope (locator, navurl and headingids are left out of the entries).
CtextEntry(ctextYAML) == SetField(ctextYAML, "scopetag", Str(GenScopetag))

CuratedChoices == {<<>>, <<CuratedA, CuratedB, CuratedA2>>}

\* The MRG of the imported scope t, mrg.t.yaml.
ImportedA ==
  [term |-> Str("a"), text |-> Str("imported a"), tags |-> Str("g"), scopetag |-> Str("t")]

ImportedC ==
  [term |-> Str("c"), text |-> Str("imported c"), tags |-> List(<<"g">>),
   status |-> Str("x"), scopetag |-> Str("t")]

TMrgT == <<"mrg", "t", "yaml">>

TMrgFiles == {TMrgT}

TMrgEntries(filename) == <<ImportedA, ImportedC>>

\* The filename of the MRG an `@` instruction names.
SourceMrgFile(scopetag, vsntag) ==
  IF vsntag # ""
  THEN <<"mrg", IF scopetag # "" THEN scopetag ELSE GenScopetag, vsntag, "yaml">>
  ELSE <<"mrg", IF scopetag # "" THEN scopetag ELSE GenScopetag, "yaml">>

\* A faulty Selected: a list-valued field is compared as if it were a string.
SelectedStringsOnly(entry, key, hasValues, valuelist) ==
  \/ key = "*"
  \/ /\ Field(entry, key).t # "undefined"
     /\ IF ~hasValues
        THEN Field(entry, key) = Str("") \/ Field(entry, key).t = "null"
        ELSE \E i \in 1..Len(valuelist) : Field(entry, key) = Str(valuelist[i])

\* The selection of addMrgEntry: whether an entry is included.
Selected(entry, key, hasValues, valuelist) ==
  \/ key = "*"
  \/ /\ Field(entry, key).t # "undefined"
     /\ IF ~hasValues
        THEN Field(entry, key) = Str("") \/ Field(entry, key).t = "null"
        ELSE \E i \in 1..Len(valuelist) :
               IF Field(entry, key).t = "string"
               THEN Field(entry, key) = Str(valuelist[i])
               ELSE Field(entry, key).t = "list" /\ Includes(Field(entry, key).v, valuelist[i])

\* The index of the first entry with this term, 0 if none (findIndex).
FindTerm(entries, term) ==
  IF \E i \in 1..Len(entries) : Field(entries[i], "term") = term
  THEN CHOOSE i \in 1..Len(entries) :
         /\ Field(entries[i], "term") = term
         /\ \A j \in 1..(i - 1) : Field(entries[j], "term") # term
  ELSE 0

\* A faulty MergeEntry: the new entry is added whether or not its term exists.
MergeEntryAppend(entries, newEntry) == Append(entries, newEntry)

\* An entry of the same term is replaced by (a copy of) the new entry; an
\* entry of a new term is added at the end.
MergeEntry(entries, newEntry) ==
  IF FindTerm(entries, Field(newEntry, "term")) # 0
  THEN [entries EXCEPT ![FindTerm(entries, Field(newEntry, "term"))] = newEntry]
  ELSE Append(entries, newEntry)

RECURSIVE MergeEntries(_, _)
MergeEntries(entries, newEntries) ==
  IF newEntries = <<>> THEN entries
  ELSE MergeEntries(MergeEntry(entries, Head(newEntries)), Tail(newEntries))

\* An object of the TuC that is no entry of a source, and the entries of the
\* sources: those of TuC.cTextMap and those of the MRG of a cached MrgBuilder.
OwnObject == [source |-> <<>>, index |-> 0]

CuratedTexts == <<"curated texts">>

SourceObject(source, index) == [source |-> source, index |-> index]

\* A faulty ShallowCopy: the entry of the source itself is put into the TuC.
SameObject(object) == object

\* { ...newEntry }: the object that holds the fields of an entry of a source
\* is a new object.
ShallowCopy(object) == OwnObject

\* The n-th index of a set of indices.
NthOf(indices, n) ==
  CHOOSE i \in indices : Cardinality({j \in indices : j < i}) = n - 1

\* The objects of the entries after MergeEntry and MergeEntries.
MergeObject(entries, objects, newEntry, object) ==
  IF Len(MergeEntry(entries, newEntry)) > Len(entries)
  THEN Append(objects, object)
  ELSE [i \in DOMAIN objects |->
          IF i = FindTerm(entries, Field(newEntry, "term")) THEN object ELSE objects[i]]

RECURSIVE MergeObjects(_, _, _, _)
MergeObjects(entries, objects, newEntries, newObjects) ==
  IF newEntries = <<>> \/ newObjects = <<>> THEN objects
  ELSE MergeObjects(MergeEntry(entries, Head(newEntries)),
                    MergeObject(entries, objects, Head(newEntries), Head(newObjects)),
                    Tail(newEntries), Tail(newObjects))

\* The filter of removeMrgEntry: "keep", "remove", or "throw" (a TypeError:
\* includes of null).
RECURSIVE RemoveVerdictFrom(_, _, _)
RemoveVerdictFrom(entry, key, valuelist) ==
  IF valuelist = <<>> THEN "keep"
  ELSE IF Field(entry, key).t = "string"
       THEN IF Field(entry, key) = Str(Head(valuelist)) THEN "remove"
            ELSE RemoveVerdictFrom(entry, key, Tail(valuelist))
       ELSE IF Field(entry, key).t = "null" THEN "throw"
            ELSE IF Includes(Field(entry, key).v, Head(valuelist)) THEN "keep"
                 ELSE RemoveVerdictFrom(entry, key, Tail(valuelist))

RemoveVerdict(entry, key, hasValues, valuelist) ==
  IF Field(entry, key).t = "undefined" THEN "keep"
  ELSE IF ~hasValues
       THEN IF Field(entry, key) = Str("") \/ Field(entry, key).t = "null" THEN "remove"
            ELSE "keep"
       ELSE RemoveVerdictFrom(entry, key, valuelist)

\* A faulty RemoveEntries: a filter that throws has removed entries already.
RemoveEntriesInPlace(entries, key, hasValues, valuelist) ==
  SelectSeq(entries, LAMBDA e : RemoveVerdict(e, key, hasValues, valuelist) # "remove")

\* The entries after a remove instruction: unchanged when the filter throws.
RemoveEntries(entries, key, hasValues, valuelist) ==
  IF \E i \in 1..Len(entries) : RemoveVerdict(entries[i], key, hasValues, valuelist) = "throw"
  THEN entries
  ELSE SelectSeq(entries, LAMBDA e : RemoveVerdict(e, key, hasValues, valuelist) = "keep")

\* An entry with the field modifiers applied in order.
RECURSIVE ApplyModifiers(_, _)
ApplyModifiers(entry, modifiers) ==
  IF modifiers = <<>> THEN entry
  ELSE ApplyModifiers(SetField(entry, Head(modifiers).key, Str(Head(modifiers).value)),
                      Tail(modifiers))

\* A faulty RenameEntries: the entries of other terms are modified as well.
RenameEntriesAll(entries, term, modifiers) ==
  [i \in 1..Len(entries) |-> ApplyModifiers(entries[i], modifiers)]

\* The entries after a rename instruction: every entry of the term is modified.
RenameEntries(entries, term, modifiers) ==
  [i \in 1..Len(entries) |->
     IF Field(entries[i], "term") = Str(term) THEN ApplyModifiers(entries[i], modifiers)
     ELSE entries[i]]

\* The objects of the entries a remove instruction leaves in the TuC.
RemoveObjects(entries, objects, key, hasValues, valuelist) ==
  IF Len(RemoveEntries(entries, key, hasValues, valuelist)) = Len(entries) THEN objects
  ELSE LET kept == {i \in DOMAIN objects \cap 1..Len(entries) :
                      RemoveVerdict(entries[i], key, hasValues, valuelist) = "keep"}
       IN [n \in 1..Cardinality(kept) |-> objects[NthOf(kept, n)]]

\* entry[key] = value on the entries of the TuC of a term, seen from a source:
\* an entry of the source that is one of these objects is modified.
RenameInSource(source, name, entries, objects, term, modifiers) ==
  [k \in 1..Len(source) |->
     IF \E i \in DOMAIN objects \cap 1..Len(entries) :
          /\ objects[i] = SourceObject(name, k)
          /\ Field(entries[i], "term") = Str(term)
     THEN ApplyModifiers(source[k], modifiers)
     ELSE source[k]]

\* A faulty PruneScopes: no scope is deleted and no scopedir is set.
PruneScopesNone(kept, rest) == kept \o rest

\* The scopes section: a scope whose scopetag another scope of the set has is
\* deleted, as is one the SAF does not list; the others get the SAF's scopedir.
RECURSIVE PruneScopes(_, _)
PruneScopes(kept, rest) ==
  IF rest = <<>> THEN kept
  ELSE LET scope == Head(rest)
           same == Cardinality({i \in 1..Len(kept) : kept[i].scopetag = scope.scopetag})
                   + Cardinality({i \in 1..Len(rest) : rest[i].scopetag = scope.scopetag})
       IN IF same > 1 THEN PruneScopes(kept, Tail(rest))
          ELSE IF \E i \in 1..Len(GenScopes) : GenScopes[i].scopetag = scope.scopetag
               THEN PruneScopes(
                      Append(kept,
                        [scopetag |-> scope.scopetag,
                         scopedir |-> GenScopes[CHOOSE i \in 1..Len(GenScopes) :
                                        GenScopes[i].scopetag = scope.scopetag].scopedir]),
                      Tail(rest))
               ELSE PruneScopes(kept, Tail(rest))

\* The instructions of the termselections.
AddInstruction(key, hasValues, valuelist, identifier, scopetag, vsntag) ==
  [op |-> "add", key |-> key, hasValues |-> hasValues, valuelist |-> valuelist,
   identifier |-> identifier, scopetag |-> scopetag, vsntag |-> vsntag,
   term |-> "", modifiers |-> <<>>]

RemoveInstruction(key, hasValues, valuelist) ==
  [op |-> "remove", key |-> key, hasValues |-> hasValues, valuelist |-> valuelist,
   identifier |-> FALSE, scopetag |-> "", vsntag |-> "", term |-> "", modifiers |-> <<>>]

RenameInstruction(term, modifiers) ==
  [op |-> "rename", key |-> "", hasValues |-> FALSE, valuelist |-> <<>>,
   identifier |-> FALSE, scopetag |-> "", vsntag |-> "", term |-> term,
   modifiers |-> modifiers]

\* An instruction that the regex of its kind does not match.
InvalidInstruction(op) ==
  [op |-> op, key |-> "", hasValues |-> FALSE, valuelist |-> <<>>,
   identifier |-> FALSE, scopetag |-> "", vsntag |-> "", term |-> "", modifiers |-> <<>>]

AddInstructions ==
  {AddInstruction("*", FALSE, <<>>, FALSE, "", ""),
   AddInstruction("*", FALSE, <<>>, TRUE, "t", ""),
   AddInstruction("tags", TRUE, <<"g">>, FALSE, "", ""),
   AddInstruction("status", FALSE, <<>>, TRUE, "t", ""),
   AddInstruction("*", FALSE, <<>>, TRUE, "u", ""),
   AddInstruction("status", FALSE, <<>>, FALSE, "", ""),
   AddInstruction("tags", TRUE, <<"z", "h">>, FALSE, "", "")}

RemoveInstructions ==
  {RemoveInstruction("tags", TRUE, <<"g">>),
   RemoveInstruction("status", TRUE, <<"x">>),
   RemoveInstruction("status", FALSE, <<>>)}

RenameInstructions ==
  {RenameInstruction("a", <<[key |-> "term", value |-> "b"]>>),
   RenameInstruction("a", <<[key |-> "text", value |-> "renamed"], [key |-> "note", value |-> "n"]>>)}

\* The versions of the SAF, by vsntag.
GenVersions == <<"1", "2">>

----------------------------------------------------------------------------
(* The terminology under construction: the builds of the versions           *)

TInit ==
  /\ curated \in CuratedChoices
  /\ tpc = "idle"
  /\ vi = 0
  /\ tucEntries = <<>>
  /\ tucScopes = <<>>
  /\ tucCText = FALSE
  /\ cTextMap = <<>>
  /\ walks = 0
  /\ builderInstances = {}
  /\ tucInstances = <<>>
  /\ applied = <<>>
  /\ added = <<>>
  /\ tucLog = <<>>
  /\ budget = 0
  /\ mrgEntries = <<>>
  /\ sameAs = <<>>

\* A new TuC: the fields before the constructor runs the termselection.
NewTuC ==
  /\ tpc = "idle"
  /\ vi < Len(GenVersions)
  /\ vi' = vi + 1
  /\ tpc' = "build"
  /\ tucEntries' = <<>>
  /\ tucScopes' = <<>>
  /\ tucCText' = FALSE
  /\ applied' = <<>>
  /\ added' = <<>>
  /\ sameAs' = <<>>
  /\ UNCHANGED <<curated, cTextMap, walks, builderInstances, tucInstances, tucLog, budget,
                 mrgEntries>>
  /\ UNCHANGED <<rvars, ivars>>

\* The list getCtextEntries returns: the cache if it has entries, else the
\* cache with the curated texts of a walk of the curatedir appended.
CtextEntries ==
  IF Len(cTextMap) > 0 THEN cTextMap
  ELSE cTextMap \o [i \in 1..Len(curated) |-> CtextEntry(curated[i])]

\* An instruction is taken from the termselection.
Take(instruction) ==
  /\ tpc = "build"
  /\ budget < MaxInstructions
  /\ budget' = budget + 1
  /\ applied' = Append(applied, instruction)
  /\ UNCHANGED <<curated, tpc, vi, tucInstances>>
  /\ UNCHANGED <<rvars, ivars>>

AddMrgEntry(instruction) ==
  /\ Take(instruction)
  /\ IF instruction.key = ""
     THEN /\ tucLog' = Append(tucLog, "E021")
          /\ UNCHANGED <<tucEntries, tucScopes, tucCText, cTextMap, walks,
                         builderInstances, added, mrgEntries, sameAs>>
     ELSE IF instruction.identifier
              /\ SourceMrgFile(instruction.scopetag, instruction.vsntag) \notin builderInstances
              /\ SourceMrgFile(instruction.scopetag, instruction.vsntag) \notin TMrgFiles
     THEN /\ tucLog' = Append(tucLog, "error")
          /\ UNCHANGED <<tucEntries, tucScopes, tucCText, cTextMap, walks,
                         builderInstances, added, mrgEntries, sameAs>>
     ELSE LET filename == SourceMrgFile(instruction.scopetag, instruction.vsntag)
              name == IF instruction.identifier THEN filename ELSE CuratedTexts
              source == IF instruction.identifier
                        THEN IF filename \in DOMAIN mrgEntries THEN mrgEntries[filename]
                             ELSE TMrgEntries(filename)
                        ELSE CtextEntries
              entries == SelectSeq(source,
                           LAMBDA e : Selected(e, instruction.key, instruction.hasValues,
                                               instruction.valuelist))
              selected == {k \in 1..Len(source) :
                             Selected(source[k], instruction.key, instruction.hasValues,
                                      instruction.valuelist)}
              objects == [n \in 1..Len(entries) |->
                            ShallowCopy(SourceObject(name, NthOf(selected, n)))]
          IN /\ IF instruction.identifier
                THEN /\ builderInstances' = builderInstances \cup {filename}
                     /\ mrgEntries' = (filename :> source) @@ mrgEntries
                     /\ UNCHANGED <<tucCText, cTextMap, walks>>
                ELSE /\ tucCText' = TRUE
                     /\ cTextMap' = CtextEntries
                     /\ walks' = IF Len(cTextMap) > 0 THEN walks ELSE walks + 1
                     /\ UNCHANGED <<builderInstances, mrgEntries>>
             /\ IF Len(entries) > 0
                THEN /\ tucEntries' = MergeEntries(tucEntries, entries)
                     /\ sameAs' = MergeObjects(tucEntries, sameAs, entries, objects)
                     /\ tucScopes' = Append(tucScopes,
                                       [scopetag |-> instruction.scopetag, scopedir |-> ""])
                     /\ added' = added \o entries
                     /\ UNCHANGED tucLog
                ELSE /\ tucLog' = Append(tucLog, "matched 0")
                     /\ UNCHANGED <<tucEntries, tucScopes, added, sameAs>>

RemoveMrgEntry(instruction) ==
  /\ Take(instruction)
  /\ UNCHANGED <<tucScopes, tucCText, cTextMap, walks, builderInstances, added, mrgEntries>>
  /\ IF instruction.key = ""
     THEN /\ tucLog' = Append(tucLog, "E021")
          /\ UNCHANGED <<tucEntries, sameAs>>
     ELSE /\ tucEntries' = RemoveEntries(tucEntries, instruction.key, instruction.hasValues,
                                         instruction.valuelist)
          /\ sameAs' = RemoveObjects(tucEntries, sameAs, instruction.key,
                                     instruction.hasValues, instruction.valuelist)
          /\ tucLog' =
               IF \E i \in 1..Len(tucEntries) :
                    RemoveVerdict(tucEntries[i], instruction.key, instruction.hasValues,
                                  instruction.valuelist) = "throw"
               THEN Append(tucLog, "error")
               ELSE IF \A i \in 1..Len(tucEntries) :
                         \/ Field(tucEntries[i], instruction.key).t = "undefined"
                         \/ /\ RemoveVerdict(tucEntries[i], instruction.key,
                                             instruction.hasValues, instruction.valuelist) = "keep"
                            /\ \/ ~instruction.hasValues
                               \/ Field(tucEntries[i], instruction.key).t = "string"
                               \/ \A j \in 1..Len(instruction.valuelist) :
                                    ~Includes(Field(tucEntries[i], instruction.key).v,
                                              instruction.valuelist[j])
                    THEN Append(tucLog, "matched 0")
                    ELSE tucLog

RenameMrgEntry(instruction) ==
  /\ Take(instruction)
  /\ UNCHANGED <<tucScopes, tucCText, walks, builderInstances, added, sameAs>>
  /\ IF instruction.term = ""
     THEN /\ tucLog' = Append(tucLog, "E021")
          /\ UNCHANGED <<tucEntries, cTextMap, mrgEntries>>
     ELSE /\ tucEntries' = RenameEntries(tucEntries, instruction.term, instruction.modifiers)
          /\ cTextMap' = RenameInSource(cTextMap, CuratedTexts, tucEntries, sameAs,
                                        instruction.term, instruction.modifiers)
          /\ mrgEntries' = [filename \in DOMAIN mrgEntries |->
                              RenameInSource(mrgEntries[filename], filename, tucEntries,
                                             sameAs, instruction.term,
                                             instruction.modifiers)]
          /\ tucLog' =
               IF \E i \in 1..Len(tucEntries) :
                    Field(tucEntries[i], "term") = Str(instruction.term)
               THEN tucLog
               ELSE Append(tucLog, "matched 0")

\* The rest of the constructor: the terminology section, the filename, the
\* scopes section, and the registration of the instance.
FinishTuC ==
  /\ tpc = "build"
  /\ tpc' = "idle"
  /\ tucScopes' = PruneScopes(<<>>, tucScopes)
  /\ tucInstances' =
       Append(tucInstances,
         [filename |-> <<"mrg", GenScopetag, GenVersions[vi], "yaml">>,
          vsntag |-> GenVersions[vi],
          entries |-> tucEntries,
          scopes |-> PruneScopes(<<>>, tucScopes),
          cText |-> tucCText])
  /\ UNCHANGED <<curated, vi, tucEntries, tucCText, cTextMap, walks, builderInstances,
                 applied, added, tucLog, budget, mrgEntries, sameAs>>
  /\ UNCHANGED <<rvars, ivars>>

\* getTuCMap: the instruction is dispatched on its prefix.
GetTuCMap ==
  \/ \E instruction \in AddInstructions \cup {InvalidInstruction("add")} :
       AddMrgEntry(instruction)
  \/ \E instruction \in RemoveInstructions \cup {InvalidInstruction("remove")} :
       RemoveMrgEntry(instruction)
  \/ \E instruction \in RenameInstructions \cup {InvalidInstruction("rename")} :
       RenameMrgEntry(instruction)

TNext == NewTuC \/ GetTuCMap \/ FinishTuC

----------------------------------------------------------------------------
(* The MRG importer (mrg-import): tags and basenames                        *)
(*                                                                          *)
(* In the importer tags and basenames are texts, so that the operations on  *)
(* their characters are what the source runs.                               *)

\* The number of versions of the import scope's SAF.
MaxVersions == 2

TagV1 == <<"v", "1">>

TagV2 == <<"v", "2">>

TagV21 == <<"v", "2", ".", "1">>

TagV3 == <<"v", "3">>

\* `mrg.${scopetag}.${vsntag}.yaml`
MrgBasename(scopetag, vsntag) ==
  <<"m", "r", "g", ".">> \o scopetag \o <<".">> \o vsntag \o <<".", "y", "a", "m", "l">>

\* `mrg.${scopetag}.yaml`
MrgDefaultBasename(scopetag) ==
  <<"m", "r", "g", ".">> \o scopetag \o <<".", "y", "a", "m", "l">>

\* The own scope's SAF: saf.scope.scopetag, and the choices of saf.scopes
\* (NoScopes: the SAF has no scopes section).
OwnScopetag == <<"s">>

ScopeT == [scopetag |-> <<"t">>, scopedir |-> "https://t"]

ScopeU == [scopetag |-> <<"u">>, scopedir |-> "https://u"]

NoScopes == <<[scopetag |-> <<>>, scopedir |-> "no scopes section"]>>

ScopeW == [scopetag |-> <<"w">>, scopedir |-> "https://w"]

ImportScopesChoices ==
  {NoScopes, <<ScopeT>>, <<ScopeT, ScopeU>>, <<ScopeU, ScopeT>>, <<ScopeW, ScopeT>>}

\* The SAF of an import scope: scope t calls itself r and maintains the versions
\* of the run, scope u maintains one version, and the SAF of scope w has no
\* versions section.
ImportScopetag(scope) == IF scope = ScopeT THEN <<"r">> ELSE scope.scopetag

ImportDefaultvsn(scope) == TagV2

ImportHasVersions(scope) == scope # ScopeW

\* A version of an import scope's SAF; `remote` tells what is at the URL of
\* its MRG: "ok", "missing" (no file), or "nofield" (a file without curatedir).
ImportVersions ==
  {[vsntag |-> TagV2, altvsntags |-> List(<<TagV21>>), remote |-> "ok"],
   [vsntag |-> TagV1, altvsntags |-> Undef, remote |-> "ok"],
   [vsntag |-> TagV1, altvsntags |-> Str(TagV21), remote |-> "ok"],
   [vsntag |-> TagV3, altvsntags |-> List(<<TagV1, TagV2>>), remote |-> "ok"],
   [vsntag |-> TagV3, altvsntags |-> Str(TagV2), remote |-> "missing"],
   [vsntag |-> TagV1, altvsntags |-> Undef, remote |-> "nofield"]}

ImportVersionLists ==
  UNION {[1..n -> ImportVersions] : n \in 1..MaxVersions}

\* importSaf.versions
VersionsOf(scope) ==
  IF scope = ScopeT THEN remoteVersions
  ELSE <<[vsntag |-> TagV2, altvsntags |-> Undef, remote |-> "ok"]>>

\* The MRG at the URL of a version of an import scope.
RemoteMrg(scope, version) ==
  [terminology |->
     [scopetag |-> ImportScopetag(scope), scopedir |-> "remote",
      curatedir |-> IF version.remote = "nofield" THEN "" ELSE "terms",
      vsntag |-> version.vsntag],
   entries |-> <<[term |-> "a", scopetag |-> ImportScopetag(scope)],
                 [term |-> "b", scopetag |-> ImportScopetag(scope)]>>]

\* getMrgMap: the required properties of the terminology that are missing.
MissingProperties(terminology) ==
  {prop \in {"scopetag", "vsntag"} : terminology[prop] = <<>>}
  \cup {prop \in {"scopedir", "curatedir"} : terminology[prop] = ""}

\* getMrgMap throws: the file cannot be fetched, or a required property is missing.
GetMrgMapThrows(scope, version) ==
  \/ version.remote = "missing"
  \/ MissingProperties(RemoteMrg(scope, version).terminology) # {}

\* A faulty Restamp: the scopetags of the entries are left as they are.
RestampTerminologyOnly(mrg, scope) ==
  [terminology |-> [mrg.terminology EXCEPT !.scopedir = scope.scopedir,
                                           !.scopetag = scope.scopetag],
   entries |-> mrg.entries]

\* The scopedir and the scopetags of the MRG are set to those of the import scope.
Restamp(mrg, scope) ==
  [terminology |-> [mrg.terminology EXCEPT !.scopedir = scope.scopedir,
                                           !.scopetag = scope.scopetag],
   entries |-> [i \in 1..Len(mrg.entries) |->
                  [mrg.entries[i] EXCEPT !.scopetag = scope.scopetag]]]

\* version.altvsntags?.includes(defaultvsn): of a list, whether it has the
\* element; of a string, whether the text occurs in it.
AltvsntagsIncludes(altvsntags, defaultvsn) ==
  CASE altvsntags.t = "list" -> Includes(altvsntags.v, defaultvsn)
    [] altvsntags.t = "string" -> Occurs(defaultvsn, altvsntags.v[1])
    [] OTHER -> FALSE

\* Whether the unsuffixed duplicate of the version is written.
IsDefaultVersion(scope, version) ==
  \/ version.vsntag = ImportDefaultvsn(scope)
  \/ AltvsntagsIncludes(version.altvsntags, ImportDefaultvsn(scope))

\* The altvsntags as a list: a string is the list of that string.
AltvsntagsList(altvsntags) ==
  CASE altvsntags.t = "list" -> altvsntags.v
    [] altvsntags.t = "string" -> <<altvsntags.v[1]>>
    [] OTHER -> <<>>

\* The basenames of the files written for a version, in the order of writing.
WrittenBasenames(scope, version) ==
  <<MrgBasename(scope.scopetag, version.vsntag)>>
  \o (IF IsDefaultVersion(scope, version)
      THEN <<MrgDefaultBasename(scope.scopetag)>> ELSE <<>>)
  \o [i \in 1..Len(AltvsntagsList(version.altvsntags)) |->
        MrgBasename(scope.scopetag, AltvsntagsList(version.altvsntags)[i])]

\* The glossarydir after writeFile(name, data).
WriteGlossaryFile(dir, name, data) ==
  {f \in dir : f.name # name} \cup {[name |-> name, data |-> data]}

RECURSIVE WriteGlossaryFiles(_, _, _)
WriteGlossaryFiles(dir, names, data) ==
  IF names = <<>> THEN dir
  ELSE WriteGlossaryFiles(WriteGlossaryFile(dir, Head(names), data), Tail(names), data)

\* The glossarydir of the own scope before the import.
OldMrg(scopetag) ==
  [terminology |-> [scopetag |-> scopetag, scopedir |-> "old", curatedir |-> "terms",
                    vsntag |-> TagV1],
   entries |-> <<>>]

GlossaryBefore ==
  {[name |-> MrgBasename(OwnScopetag, TagV1), data |-> OldMrg(OwnScopetag)],
   [name |-> MrgDefaultBasename(<<"t">>), data |-> OldMrg(<<"t">>)],
   [name |-> MrgBasename(<<"x">>, TagV1), data |-> OldMrg(<<"x">>)],
   [name |-> MrgDefaultBasename(<<"x">>), data |-> OldMrg(<<"x">>)],
   [name |-> MrgBasename(<<"x">>, TagV21), data |-> OldMrg(<<"x">>)]}

\* prune: the regex /mrg.([a-z0-9_-]+)(?:.[a-z0-9_-]+)?.yaml/ matches the
\* basename from index p with a first group of n characters and an optional
\* group of m characters (0: the group does not take part).
IsTagChar(c) == c # "."

AllTagChars(s, from, to) == \A i \in from..(to - 1) : IsTagChar(s[i + 1])

PruneRegexMatches(basename, p, n, m) ==
  /\ Substring(basename, p, p + 3) = <<"m", "r", "g">>
  /\ n >= 1
  /\ p + 4 + n + m + 5 <= Len(basename)
  /\ AllTagChars(basename, p + 4, p + 4 + n)
  /\ m = 0 \/ (m >= 2 /\ AllTagChars(basename, p + 4 + n + 1, p + 4 + n + m))
  /\ Substring(basename, p + 4 + n + m + 1, p + 4 + n + m + 5) = <<"y", "a", "m", "l">>

\* The first group of the leftmost match, the group as long as a match allows;
\* <<>> if the regex does not match.
PruneScopetag(basename) ==
  LET Starts == {p \in 0..Len(basename) :
                   /\ Substring(basename, p, p + 3) = <<"m", "r", "g">>
                   /\ \E n, m \in 0..Len(basename) : PruneRegexMatches(basename, p, n, m)}
  IN IF Starts = {} THEN <<>>
     ELSE LET p == CHOOSE q \in Starts : \A r \in Starts : q <= r
              Lengths == {n \in 0..Len(basename) :
                            \E m \in 0..Len(basename) : PruneRegexMatches(basename, p, n, m)}
              n == CHOOSE k \in Lengths : \A l \in Lengths : k >= l
          IN Substring(basename, p + 4, p + 4 + n)

\* Whether prune deletes the file.
Pruned(basename, scopes) ==
  LET scopetag == PruneScopetag(basename)
  IN /\ scopetag # <<>>
     /\ ~ \/ \E i \in 1..Len(scopes) : scopes[i].scopetag = scopetag
          \/ scopetag = OwnScopetag

----------------------------------------------------------------------------
(* The MRG importer: initialize                                             *)

IInit ==
  /\ importScopes \in ImportScopesChoices
  /\ remoteVersions \in ImportVersionLists
  /\ onNotExist \in {"throw", "warn", "log", "ignore"}
  /\ prune \in BOOLEAN
  /\ ipc = "start"
  /\ si = 1
  /\ vix = 1
  /\ glossary = GlossaryBefore
  /\ writes = <<>>
  /\ ilog = <<>>

\* initialize, up to the loop over the import scopes.
Initialize ==
  /\ ipc = "start"
  /\ IF importScopes = NoScopes
     THEN /\ ipc' = "done"
          /\ ilog' = Append(ilog, "No import scopes found")
     ELSE /\ ipc' = IF prune THEN "prune" ELSE "scope"
          /\ UNCHANGED ilog
  /\ UNCHANGED <<importScopes, remoteVersions, onNotExist, prune, si, vix, glossary, writes>>
  /\ UNCHANGED <<rvars, tvars>>

\* Interpreter.prune
Prune ==
  /\ ipc = "prune"
  /\ ipc' = "scope"
  /\ glossary' = {f \in glossary : ~Pruned(f.name, importScopes)}
  /\ UNCHANGED <<importScopes, remoteVersions, onNotExist, prune, si, vix, writes, ilog>>
  /\ UNCHANGED <<rvars, tvars>>

\* An iteration of the loop over saf.scopes, up to the loop over the versions.
HandleScope ==
  /\ ipc = "scope"
  /\ IF si > Len(importScopes)
     THEN /\ ipc' = "done"
          /\ UNCHANGED <<si, ilog>>
     ELSE IF ~ImportHasVersions(importScopes[si])
          THEN /\ si' = si + 1
               /\ ilog' = Append(ilog, "No maintained MRG files found")
               /\ UNCHANGED ipc
          ELSE /\ ipc' = "version"
               /\ UNCHANGED <<si, ilog>>
  /\ vix' = 1
  /\ UNCHANGED <<importScopes, remoteVersions, onNotExist, prune, glossary, writes>>
  /\ UNCHANGED <<rvars, tvars>>

\* Report.onNotExistError: what is logged under the policy.
OnNotExistLog(log, policy) ==
  CASE policy = "throw" -> Append(log, "E006")
    [] policy = "warn" -> Append(log, "warn")
    [] policy = "log" -> Append(log, "info")
    [] OTHER -> log

\* A faulty OnNotExistExits: the process exits under every policy.
OnNotExistExitsAlways(policy) == TRUE

\* Report.onNotExistError: whether the process exits (process.exit(1)).
OnNotExistExits(policy) == policy = "throw"

\* An iteration of the loop over importSaf.versions.
ImportVersion ==
  /\ ipc = "version"
  /\ IF GetMrgMapThrows(importScopes[si], VersionsOf(importScopes[si])[vix])
     THEN /\ ilog' = OnNotExistLog(ilog, onNotExist)
          /\ UNCHANGED <<glossary, writes>>
     ELSE /\ glossary' =
               WriteGlossaryFiles(glossary,
                 WrittenBasenames(importScopes[si], VersionsOf(importScopes[si])[vix]),
                 Restamp(RemoteMrg(importScopes[si], VersionsOf(importScopes[si])[vix]), importScopes[si]))
          /\ writes' = writes \o
               [i \in 1..Len(WrittenBasenames(importScopes[si], VersionsOf(importScopes[si])[vix])) |->
                  [name |-> WrittenBasenames(importScopes[si], VersionsOf(importScopes[si])[vix])[i],
                   data |-> Restamp(RemoteMrg(importScopes[si], VersionsOf(importScopes[si])[vix]),
                                    importScopes[si]),
                   scope |-> si, version |-> vix]]
          /\ UNCHANGED ilog
  /\ IF /\ GetMrgMapThrows(importScopes[si], VersionsOf(importScopes[si])[vix])
        /\ OnNotExistExits(onNotExist)
     THEN /\ ipc' = "exit"
          /\ UNCHANGED <<si, vix>>
     ELSE IF vix < Len(VersionsOf(importScopes[si]))
          THEN /\ vix' = vix + 1
               /\ UNCHANGED <<ipc, si>>
          ELSE /\ ipc' = "scope"
               /\ si' = si + 1
               /\ UNCHANGED vix
  /\ UNCHANGED <<importScopes, remoteVersions, onNotExist, prune>>
  /\ UNCHANGED <<rvars, tvars>>

INext == Initialize \/ Prune \/ HandleScope \/ ImportVersion

----------------------------------------------------------------------------
(* The claims about the terminology under construction *)

\* Every instruction applied so far in this build is an add instruction.
OnlyAdds == \A i \in 1..Len(applied) : applied[i].op = "add"

\* The entry of this term that was added last.
LastAdded(term) ==
  added[CHOOSE i \in 1..Len(added) :
          /\ Field(added[i], "term") = term
          /\ \A j \in (i + 1)..Len(added) : Field(added[j], "term") # term]

\* C2: after a sequence of add instructions, the terminology under
\* construction has, for every term that was added, exactly one entry, and that
\* entry equals the entry of the term that was added last (last-write-wins);
\* so a replacement leaves the entries of the other terms as they were added,
\* and the terminology has no entry that was not added.
C2_LastWriteWins ==
  OnlyAdds =>
    /\ \A i \in 1..Len(added) :
         /\ Cardinality({j \in 1..Len(tucEntries) :
                           Field(tucEntries[j], "term") = Field(added[i], "term")}) = 1
         /\ \A j \in 1..Len(tucEntries) :
              Field(tucEntries[j], "term") = Field(added[i], "term")
                => tucEntries[j] = LastAdded(Field(added[i], "term"))
    /\ \A j \in 1..Len(tucEntries) :
         \E i \in 1..Len(added) : Field(added[i], "term") = Field(tucEntries[j], "term")

\* Two different entries of one term were added by add instructions, and the
\* terminology has an entry of another term as well.
C2_Witness ==
  /\ OnlyAdds
  /\ tpc = "build"
  /\ \E i, j \in 1..Len(added) :
       /\ i < j
       /\ Field(added[i], "term") = Field(added[j], "term")
       /\ added[i] # added[j]
       /\ \E k \in 1..Len(tucEntries) :
            Field(tucEntries[k], "term") # Field(added[i], "term")

\* C3: no two entries of the terminology under construction have the same
\* term, whatever add, remove and rename instructions were applied.
C3_TermsUnique ==
  \A i, j \in 1..Len(tucEntries) :
    i # j => Field(tucEntries[i], "term") # Field(tucEntries[j], "term")

\* The step applies a well-formed instruction of this kind.
Applies(op) ==
  /\ tpc = "build"
  /\ Len(applied') = Len(applied) + 1
  /\ applied'[Len(applied')].op = op
  /\ applied'[Len(applied')].key # "" \/ applied'[Len(applied')].term # ""

\* The entries an add instruction reads: those of the MRG it names, or the
\* curated texts.
SourceEntries(instruction) ==
  IF instruction.identifier
  THEN TMrgEntries(SourceMrgFile(instruction.scopetag, instruction.vsntag))
  ELSE [i \in 1..Len(curated) |-> CtextEntry(curated[i])]

\* The MRG an add instruction names cannot be loaded.
SourceFails(instruction) ==
  instruction.identifier
    /\ SourceMrgFile(instruction.scopetag, instruction.vsntag) \notin TMrgFiles

\* The selection rule of the claim, for an entry as a record of fields.
ToSelect(entry, instruction) ==
  \/ instruction.key = "*"
  \/ /\ instruction.key \in DOMAIN entry
     /\ IF instruction.hasValues
        THEN LET values == {instruction.valuelist[i] : i \in 1..Len(instruction.valuelist)}
                 field == entry[instruction.key]
             IN \/ field.t = "string" /\ field.v[1] \in values
                \/ field.t = "list" /\ \E k \in 1..Len(field.v) : field.v[k] \in values
        ELSE entry[instruction.key] \in {Str(""), Null}

\* C14: the entries an add instruction adds are, in the order of the source,
\* all entries of the source if the key is `*`, and else exactly the entries
\* that have the field `key` and in it (values given) a string that is one of
\* the values or a list with one of the values, or (no values given) the empty
\* string or null.
C14_AddSelects ==
  [][(Applies("add") /\ ~SourceFails(applied'[Len(applied')])) =>
       SubSeq(added', Len(added) + 1, Len(added')) =
         SelectSeq(SourceEntries(applied'[Len(applied')]),
                   LAMBDA e : ToSelect(e, applied'[Len(applied')]))]_tvars

\* The instruction tags[z, h] has selected, of the three curated texts, the
\* one with h in its list of tags and the one with the string h as its tags.
C14_Witness ==
  /\ tpc = "build"
  /\ Len(applied) = 1
  /\ applied[1] = AddInstruction("tags", TRUE, <<"z", "h">>, FALSE, "", "")
  /\ Len(cTextMap) > Len(added)
  /\ \E i, j \in 1..Len(added) :
       Field(added[i], "tags").t = "list" /\ Field(added[j], "tags").t = "string"

\* The removal rule of the claim, for an entry as a record of fields.
ToRemove(entry, instruction) ==
  /\ instruction.key \in DOMAIN entry
  /\ IF instruction.hasValues
     THEN /\ entry[instruction.key].t = "string"
          /\ \E i \in 1..Len(instruction.valuelist) :
               entry[instruction.key].v[1] = instruction.valuelist[i]
     ELSE entry[instruction.key] \in {Str(""), Null}

\* C15: a remove instruction deletes exactly the entries that have in the field
\* `key` a string that is one of the values, or (no values given) the empty
\* string or null; every other entry, one with a list in the field included,
\* is kept, in the order the entries had.
C15_RemoveDeletes ==
  [][Applies("remove") =>
       tucEntries' = SelectSeq(tucEntries, LAMBDA e : ~ToRemove(e, applied'[Len(applied')]))
    ]_tvars

\* The value a rename instruction gives the field, if it names the field.
Named(instruction, key) ==
  \E i \in 1..Len(instruction.modifiers) : instruction.modifiers[i].key = key

NamedValue(instruction, key) ==
  instruction.modifiers[CHOOSE i \in 1..Len(instruction.modifiers) :
                          instruction.modifiers[i].key = key].value

\* C16: a rename instruction leaves the number and the order of the entries
\* as they are; an entry whose term is the term of the instruction gets the
\* named fields with the values of the instruction and keeps its other fields;
\* an entry of another term is unchanged.
C16_RenameFrame ==
  [][Applies("rename") =>
       LET instruction == applied'[Len(applied')]
       IN /\ Len(tucEntries') = Len(tucEntries)
          /\ \A i \in 1..Len(tucEntries) :
               IF Field(tucEntries[i], "term") = Str(instruction.term)
               THEN /\ DOMAIN tucEntries'[i] =
                         DOMAIN tucEntries[i] \cup
                           {instruction.modifiers[k].key : k \in 1..Len(instruction.modifiers)}
                    /\ \A key \in DOMAIN tucEntries'[i] :
                         tucEntries'[i][key] =
                           IF Named(instruction, key) THEN Str(NamedValue(instruction, key))
                           ELSE tucEntries[i][key]
               ELSE tucEntries'[i] = tucEntries[i]
    ]_tvars

\* A rename of a has given the entry of a a changed field and a new field,
\* next to an entry of another term.
C16_Witness ==
  /\ tpc = "build"
  /\ Len(applied) > 1
  /\ applied[Len(applied)].op = "rename"
  /\ \E i, j \in 1..Len(tucEntries) :
       /\ Field(tucEntries[i], "term") = Str("a")
       /\ Field(tucEntries[i], "note") = Str("n")
       /\ Field(tucEntries[i], "text") = Str("renamed")
       /\ Field(tucEntries[i], "tags").t # "undefined"
       /\ Field(tucEntries[j], "term") # Str("a")
       /\ Field(tucEntries[j], "note").t = "undefined"

\* An instruction that the regex of its kind does not match.
Malformed(instruction) == instruction.key = "" /\ instruction.term = ""

\* An instruction that raises an error when applied to these entries: an add
\* whose MRG cannot be loaded, a remove with values that meets a null field.
Raises(instruction, entries) ==
  \/ instruction.op = "add" /\ SourceFails(instruction)
  \/ /\ instruction.op = "remove"
     /\ instruction.hasValues
     /\ \E i \in 1..Len(entries) : Field(entries[i], instruction.key) = Null

\* The entries with one more entry added: in the place of the first entry of
\* its term, or at the end.
RECURSIVE Upsert(_, _)
Upsert(entries, entry) ==
  IF entries = <<>> THEN <<entry>>
  ELSE IF Field(Head(entries), "term") = Field(entry, "term") THEN <<entry>> \o Tail(entries)
       ELSE <<Head(entries)>> \o Upsert(Tail(entries), entry)

RECURSIVE UpsertAll(_, _)
UpsertAll(entries, new) ==
  IF new = <<>> THEN entries ELSE UpsertAll(Upsert(entries, Head(new)), Tail(new))

\* An entry with the named fields of a rename instruction set.
Renamed(entry, instruction) ==
  [key \in DOMAIN entry \cup
             {instruction.modifiers[k].key : k \in 1..Len(instruction.modifiers)} |->
     IF Named(instruction, key) THEN Str(NamedValue(instruction, key)) ELSE entry[key]]

\* The entries one instruction leaves, by the rules of the instructions.
Effect(entries, instruction) ==
  IF Malformed(instruction) \/ Raises(instruction, entries) THEN entries
  ELSE CASE instruction.op = "add" ->
              UpsertAll(entries, SelectSeq(SourceEntries(instruction),
                                           LAMBDA e : ToSelect(e, instruction)))
         [] instruction.op = "remove" ->
              SelectSeq(entries, LAMBDA e : ~ToRemove(e, instruction))
         [] OTHER ->
              [i \in 1..Len(entries) |->
                 IF Field(entries[i], "term") = Str(instruction.term)
                 THEN Renamed(entries[i], instruction) ELSE entries[i]]

\* The entries a list of instructions leaves, applied in the order of the list.
RECURSIVE Replay(_, _)
Replay(entries, instructions) ==
  IF instructions = <<>> THEN entries
  ELSE Replay(Effect(entries, Head(instructions)), Tail(instructions))

\* C17: the entries of the terminology under construction are those that the
\* instructions applied so far leave when applied one after the other, in the
\* order of the list, each to the entries its predecessors left; a malformed
\* instruction and one that raises an error leave the entries as they are and
\* are logged, and the build goes on with the next instruction.
C17_InOrder ==
  [][/\ tucEntries' = Replay(<<>>, applied')
     /\ (tpc = "build" /\ Len(applied') = Len(applied) + 1) =>
          /\ tpc' = "build"
          /\ applied' = Append(applied, applied'[Len(applied')])
          /\ (Malformed(applied'[Len(applied')]) \/ Raises(applied'[Len(applied')], tucEntries))
               => tucEntries' = tucEntries /\ Len(tucLog') = Len(tucLog) + 1
    ]_tvars

\* A build in which an add was applied, then an instruction that raised an
\* error or was malformed, to no effect but an entry in the log, and then an
\* instruction that changed the entries that were left.
C17_Witness ==
  /\ tpc = "build"
  /\ Len(applied) = 3
  /\ Len(Replay(<<>>, SubSeq(applied, 1, 1))) > 0
  /\ Malformed(applied[2]) \/ Raises(applied[2], Replay(<<>>, SubSeq(applied, 1, 1)))
  /\ Len(tucLog) = 1
  /\ tucEntries # Replay(<<>>, SubSeq(applied, 1, 2))

\* An add instruction that names a scope, and the step that ends a build.
NamesScope(instruction) ==
  instruction.op = "add" /\ instruction.key # "" /\ instruction.identifier
    /\ instruction.scopetag # ""

Administered24(scopetag) == \E i \in 1..Len(GenScopes) : GenScopes[i].scopetag = scopetag

AdministeredScopedir(scopetag) ==
  GenScopes[CHOOSE i \in 1..Len(GenScopes) : GenScopes[i].scopetag = scopetag].scopedir

\* The instruction adds an entry: its source can be loaded and it selects some entry.
AddsSome(instruction) ==
  /\ ~SourceFails(instruction)
  /\ \E i \in 1..Len(SourceEntries(instruction)) :
       ToSelect(SourceEntries(instruction)[i], instruction)

BuildEnds == tpc = "build" /\ tpc' = "idle"

\* The scopes are those of the instructions that satisfy `counts`: each
\* administered scope of such an instruction once, with the scopedir of the
\* administration, and nothing else.
ScopesAreThoseOf(scopes, counts(_)) ==
  /\ \A i \in 1..Len(applied) :
       (NamesScope(applied[i]) /\ counts(applied[i])
          /\ Administered24(applied[i].scopetag)) =>
         \E j \in 1..Len(scopes) : scopes[j].scopetag = applied[i].scopetag
  /\ \A j \in 1..Len(scopes) :
       /\ Administered24(scopes[j].scopetag)
       /\ scopes[j].scopedir = AdministeredScopedir(scopes[j].scopetag)
       /\ \E i \in 1..Len(applied) :
            NamesScope(applied[i]) /\ applied[i].scopetag = scopes[j].scopetag
       /\ \A k \in 1..Len(scopes) : scopes[k].scopetag = scopes[j].scopetag => k = j

\* C24, as stated: when a build ends, the scopes of the terminology are the
\* administered scopes of all add instructions that name a scope, each once
\* and with the scopedir of the administration, and no other scope.
C24_ScopesOfInstructions ==
  [][BuildEnds => ScopesAreThoseOf(tucScopes', LAMBDA instruction : TRUE)]_tvars

\* C24, amended: when a build ends, the scopes of the terminology are the
\* administered scopes of the add instructions that name a scope and added at
\* least one entry, each once and with the scopedir of the administration, and
\* no other scope: none for the curated texts, none that is not administered.
C24_ScopesOfAdditions ==
  [][BuildEnds =>
       /\ ScopesAreThoseOf(tucScopes', AddsSome)
       /\ \A j \in 1..Len(tucScopes') :
            \E i \in 1..Len(applied) :
              /\ NamesScope(applied[i]) /\ AddsSome(applied[i])
              /\ applied[i].scopetag = tucScopes'[j].scopetag
       /\ tucInstances'[Len(tucInstances')].scopes = tucScopes']_tvars

\* C24's case: a build of three instructions ended, two of which added entries
\* of the administered scope t and one entries of the curated texts: the
\* terminology has the scope t once.
C24_Witness ==
  /\ tpc = "idle"
  /\ Len(applied) = 3
  /\ Cardinality({i \in 1..3 : NamesScope(applied[i]) /\ AddsSome(applied[i])
                                /\ applied[i].scopetag = "t"}) = 2
  /\ \E i \in 1..3 : applied[i].op = "add" /\ ~applied[i].identifier /\ AddsSome(applied[i])
  /\ tucScopes = <<[scopetag |-> "t", scopedir |-> "dir-t"]>>

\* C23: the directory of the curated texts is walked at most once in a build,
\* whatever the number of curated texts found: every add instruction without
\* a scopetag after the first uses the texts of the first walk.
C23_WalkedOnce == walks <= 1

\* The entries the add instructions of a termselection select from the
\* sources as they were loaded.
RECURSIVE SelectedFromSources(_)
SelectedFromSources(instructions) ==
  IF instructions = <<>> THEN <<>>
  ELSE LET instruction == Head(instructions)
       IN (IF instruction.op = "add" /\ ~Malformed(instruction) /\ ~SourceFails(instruction)
           THEN SelectSeq(SourceEntries(instruction), LAMBDA e : ToSelect(e, instruction))
           ELSE <<>>)
          \o SelectedFromSources(Tail(instructions))

\* C25: the instructions of a build leave the sources as they were loaded:
\* every cached curated text and every entry of a cached MRG has the fields
\* and values it was loaded with, and the add instructions of every version
\* select from these entries.
C25_SourcesUnchanged ==
  /\ cTextMap \in {<<>>, [i \in 1..Len(curated) |-> CtextEntry(curated[i])]}
  /\ \A filename \in DOMAIN mrgEntries : mrgEntries[filename] = TMrgEntries(filename)
  /\ added = SelectedFromSources(applied)

\* C25's case: the first version added the entry of the term a and a rename
\* instruction modified it; the second version has added the entry of the
\* term a of the same source.
C25_Witness ==
  /\ vi = 2
  /\ Len(tucInstances) = 1
  /\ \E i \in 1..Len(tucInstances[1].entries) :
       /\ Field(tucInstances[1].entries[i], "note") = Str("n")
       /\ Field(tucInstances[1].entries[i], "text") = Str("renamed")
       /\ \E j \in 1..Len(added) :
            /\ Field(added[j], "term") = Str("a")
            /\ Field(added[j], "scopetag") = Field(tucInstances[1].entries[i], "scopetag")
            /\ Field(added[j], "note") = Undef
            /\ Field(added[j], "text") # Str("renamed")

----------------------------------------------------------------------------
(* The claims about the MRG importer *)

\* C10: the iteration for a version whose MRG was fetched writes the file
\* mrg.<tag>.<vsntag>.yaml, the file mrg.<tag>.yaml exactly when the vsntag is
\* the import scope's defaultvsn or that defaultvsn is one of the version's
\* altvsntags, and a file mrg.<tag>.<altvsntag>.yaml for every altvsntag, and
\* no other file; all of them with the same content.
C10_FilesWritten ==
  [][(ipc = "version" /\ ~GetMrgMapThrows(importScopes[si], VersionsOf(importScopes[si])[vix])) =>
       LET scope == importScopes[si]
           version == VersionsOf(importScopes[si])[vix]
           altvsntags == AltvsntagsList(version.altvsntags)
           new == SubSeq(writes', Len(writes) + 1, Len(writes'))
       IN /\ {new[i].name : i \in 1..Len(new)} =
               {MrgBasename(scope.scopetag, version.vsntag)}
               \cup (IF \/ version.vsntag = ImportDefaultvsn(scope)
                        \/ Includes(altvsntags, ImportDefaultvsn(scope))
                     THEN {MrgDefaultBasename(scope.scopetag)} ELSE {})
               \cup {MrgBasename(scope.scopetag, altvsntags[i]) : i \in 1..Len(altvsntags)}
          /\ \A i, j \in 1..Len(new) : new[i].data = new[j].data
          /\ \A i \in 1..Len(new) : [name |-> new[i].name, data |-> new[i].data] \in glossary'
    ]_ivars

\* The import scope at place s of saf.scopes has a version at place v.
HasVersion(s, v) ==
  /\ importScopes # NoScopes
  /\ s \in 1..Len(importScopes)
  /\ ImportHasVersions(importScopes[s])
  /\ v \in 1..Len(VersionsOf(importScopes[s]))

\* The MRG of that version can be fetched and loaded.
Fetchable(s, v) ==
  HasVersion(s, v) /\ ~GetMrgMapThrows(importScopes[s], VersionsOf(importScopes[s])[v])

\* The file mrg.<tag>.<vsntag>.yaml of that version was written.
WrittenVersion(s, v) ==
  \E i \in 1..Len(writes) :
    /\ writes[i].scope = s
    /\ writes[i].version = v
    /\ writes[i].name = MrgBasename(importScopes[s].scopetag,
                                    VersionsOf(importScopes[s])[v].vsntag)

\* The versions of all import scopes, as places (s, v).
Places == {p \in (1..Len(importScopes)) \X (1..MaxVersions) : HasVersion(p[1], p[2])}

\* Place p comes before place q in the order of the loops.
Before(p, q) == p[1] < q[1] \/ (p[1] = q[1] /\ p[2] < q[2])

\* The number of versions that cannot be fetched or loaded.
Failing == Cardinality({p \in Places : ~Fetchable(p[1], p[2])})

\* The number of entries of the log that report such a version.
Reported(code) == Cardinality({i \in 1..Len(ilog) : ilog[i] = code})

\* C11 (as stated): when the run has ended, every version that can be fetched
\* has been written, whatever the not-exist policy and wherever a failing
\* version sits in the lists.
C11_AlwaysContinues ==
  ipc \in {"done", "exit"} => \A p \in Places : Fetchable(p[1], p[2]) => WrittenVersion(p[1], p[2])

\* C11 (amended): under the policies warn, log and ignore a failing version is
\* reported as the policy says and the loops continue, so that at the end of
\* the run every version that can be fetched has been written; under the
\* policy throw the process exits at the first failing version, with the
\* versions before it written and no version after it.  The process exits
\* under no other policy.
C11_PolicyApplied ==
  /\ ipc = "done" =>
       /\ \A p \in Places : Fetchable(p[1], p[2]) <=> WrittenVersion(p[1], p[2])
       /\ Failing > 0 => onNotExist # "throw"
       /\ Reported("warn") = (IF onNotExist = "warn" THEN Failing ELSE 0)
       /\ Reported("info") = (IF onNotExist = "log" THEN Failing ELSE 0)
       /\ Reported("E006") = 0
  /\ ipc = "exit" =>
       /\ onNotExist = "throw"
       /\ HasVersion(si, vix) /\ ~Fetchable(si, vix)
       /\ Reported("E006") = 1
       /\ \A p \in Places :
            /\ Before(p, <<si, vix>>) => Fetchable(p[1], p[2]) /\ WrittenVersion(p[1], p[2])
            /\ ~Before(p, <<si, vix>>) => ~WrittenVersion(p[1], p[2])

\* A run under the policy warn has ended: the first version of the first scope
\* failed, a later version of that scope and the version of the next scope
\* were written.
C11_Witness ==
  /\ ipc = "done"
  /\ onNotExist = "warn"
  /\ Len(importScopes) > 1
  /\ HasVersion(1, 1) /\ ~Fetchable(1, 1)
  /\ \E v \in 1..MaxVersions : v > 1 /\ Fetchable(1, v) /\ WrittenVersion(1, v)
  /\ Fetchable(Len(importScopes), 1) /\ WrittenVersion(Len(importScopes), 1)

ScopetagSegment(basename) ==
  LET rest == SubstringFrom(basename, Len(<<"m", "r", "g", ".">>))
      dots == {i \in 1..Len(rest) : rest[i] = "."}
  IN SubSeq(rest, 1, (CHOOSE i \in dots : \A j \in dots : i <= j) - 1)

\* The scopetags whose files stay: that of the own scope and those of saf.scopes.
Administered == {OwnScopetag} \cup {importScopes[i].scopetag : i \in 1..Len(importScopes)}

\* C13: after a run with the prune option (of a SAF with a scopes section) the
\* glossarydir has no MRG file whose scopetag segment is neither the own
\* scopetag nor that of a listed import scope, and every file of the own scope
\* or a listed import scope that was there before the run is still there.
C13_Pruned ==
  (ipc = "done" /\ prune /\ importScopes # NoScopes) =>
    /\ \A f \in glossary : ScopetagSegment(f.name) \in Administered
    /\ \A f \in GlossaryBefore :
         ScopetagSegment(f.name) \in Administered => \E g \in glossary : g.name = f.name

\* C18: when the MRG of a version is fetched and its terminology section lacks
\* a required field, the process exits (with code 1) whatever the not-exist
\* policy, and nothing is written for the version.
C18_MissingFieldFatal ==
  [][(/\ ipc = "version"
      /\ VersionsOf(importScopes[si])[vix].remote # "missing"
      /\ MissingProperties(RemoteMrg(importScopes[si],
                                     VersionsOf(importScopes[si])[vix]).terminology) # {})
       => ipc' = "exit" /\ writes' = writes /\ glossary' = glossary
    ]_ivars

----------------------------------------------------------------------------
(* The runs of the tools *)

vars == <<rvars, tvars, ivars>>

\* The state of a tool that does not run.
RIdle ==
  /\ inputs = [f \in InputFiles |-> <<>>]
  /\ force = FALSE
  /\ outputs = [o \in OutputFiles |-> NoFile]
  /\ dirs = {}
  /\ rpc = "idle"
  /\ files = <<>>
  /\ fi = 0
  /\ fileOrig = <<>>
  /\ matches = <<>>
  /\ mi = 1
  /\ lastIndex = 0
  /\ converted = 0
  /\ termProperties = NoProperties
  /\ mrgFile = <<>>
  /\ convertedData = Undefined
  /\ edits = <<>>
  /\ instances = <<>>
  /\ termErrors = <<>>
  /\ repConverted = <<>>
  /\ repFiles = <<>>
  /\ errlog = <<>>
  /\ faults = NoFaults
  /\ parked = <<>>
  /\ earlier = <<>>

TIdle ==
  /\ curated = <<>>
  /\ tpc = "off"
  /\ vi = 0
  /\ tucEntries = <<>>
  /\ tucScopes = <<>>
  /\ tucCText = FALSE
  /\ cTextMap = <<>>
  /\ walks = 0
  /\ builderInstances = {}
  /\ tucInstances = <<>>
  /\ applied = <<>>
  /\ added = <<>>
  /\ tucLog = <<>>
  /\ budget = 0
  /\ mrgEntries = <<>>
  /\ sameAs = <<>>

IIdle ==
  /\ importScopes = NoScopes
  /\ remoteVersions = <<>>
  /\ onNotExist = "throw"
  /\ prune = FALSE
  /\ ipc = "off"
  /\ si = 1
  /\ vix = 1
  /\ glossary = {}
  /\ writes = <<>>
  /\ ilog = <<>>

\* A run of the term reference resolver.
Init == RInit /\ TIdle /\ IIdle

Spec == Init /\ [][RNext]_vars

\* The builds of the terminologies of the versions of a scope.
TuCInit == TInit /\ RIdle /\ IIdle

TuCSpec == TuCInit /\ [][TNext]_vars

\* A run of the MRG importer.
ImportInit == IInit /\ RIdle /\ TIdle

ImportSpec == ImportInit /\ [][INext]_vars

\* A run of the resolver in which reads, interpretations and writes fail.
FaultInit == ResolverInit(FaultInputs, [InputFiles -> Faults]) /\ TIdle /\ IIdle

FaultSpec == FaultInit /\ [][RNext]_vars

\* A run of the resolver in which the work on the files is interleaved.
InterleavedInit == ResolverInit(InterleavedInputs, {NoFaults}) /\ TIdle /\ IIdle

InterleavedSpec == InterleavedInit /\ [][InterleavedNext]_vars

\* Two runs of the resolver over the same input.
RerunInit == RInit /\ inputs \in RerunInputs /\ TIdle /\ IIdle

RerunSpec == RerunInit /\ [][RerunNext]_vars

====
